---- MODULE Spec2Model ----
(***************************************************************************)
(* Building characterization, loss calculation and county aggregation of  *)
(* the Hurricane Ida wind-loss pipeline (src/modules/building_losses.py,  *)
(* driven by step 3 of src/main_pipeline.py).                             *)
(*                                                                         *)
(* Data frames are modelled as a column list plus rows of cells.  A cell   *)
(* is a record [k, n, s]: a number (k = "num", value n), a text (k =       *)
(* "str", characters s) or a missing value (k = "na", s the text Python's  *)
(* str() gives it).  Texts are TLA+ strings, sliced and searched as the    *)
(* code slices and searches them.  Real-valued columns are scaled          *)
(* integers: roughness in thousandths, loss ratios in thousandths, money   *)
(* in whole units, losses in thousandths of a unit, uniform random draws   *)
(* in hundredths.                                                          *)
(***************************************************************************)
EXTENDS Integers, Sequences, FiniteSets, TLC

VARIABLES
    nsi,          \* the building inventory handed to characterize_buildings (rows of SrcCols)
    stream,       \* the uniform draws numpy yields after np.random.seed(RANDOM_SEED)
    force,        \* args.force_rerun of the run
    mappingFile,  \* whether hazus_dir/Mapping.xlsx exists
    damageFile,   \* whether hazus_dir/huDamLossFunc.csv exists
    ckpt,         \* the checkpoint file nsi_wbId_sr.csv: [exists, readable, cols, rows]
    joined,       \* scenario -> the joined wind table of that scenario
    lossFile,     \* scenario -> the file <scenario>/Losses.csv: [exists, cols, rows]
    summary,      \* the file TotalLoss.csv: [exists, cols, rows]
    pc,           \* position of the run in step 3 of run_pipeline
    inv,          \* building_inventory, the value characterize_buildings returned
    lossPaths,    \* loss_files, the scenarios calculate_building_losses returned a path for
    exc,          \* the exception that ended the run, "none" while there is none
    cfips,        \* the county list the characterization loop iterates over
    eff           \* effects of the last stage: tables read, draws made, files written, warnings

vars == <<nsi, stream, force, mappingFile, damageFile, ckpt, joined, lossFile,
          summary, pc, inv, lossPaths, exc, cfips, eff>>

-----------------------------------------------------------------------------
(* Cells and texts                                                         *)

Num(n) == [k |-> "num", n |-> n, s |-> ""]
Str(s) == [k |-> "str", n |-> 0, s |-> s]
\* pd.NA, the missing value the loop assigns (lines 255, 296, 301, 328)
NA == [k |-> "na", n |-> 0, s |-> "<NA>"]
\* float NaN, the missing value read_csv produces
NaN == [k |-> "na", n |-> 0, s |-> "nan"]

IsNA(c) == c.k = "na"

\* str(i) of a cell, as at line 348 and in astype(str)
PyStr(c) == IF c.k = "num" THEN Str(ToString(c.n)) ELSE Str(c.s)

Digits == <<"0", "1", "2", "3", "4", "5", "6", "7", "8", "9">>

IsDigit(ch) == \E d \in 1..Len(Digits) : Digits[d] = ch

DigitVal(ch) == (CHOOSE d \in 1..Len(Digits) : Digits[d] = ch) - 1

IsDigitText(s) == Len(s) > 0 /\ \A i \in 1..Len(s) : IsDigit(SubSeq(s, i, i))

RECURSIVE TextVal(_)
TextVal(s) ==
    IF Len(s) = 0 THEN 0
    ELSE 10 * TextVal(SubSeq(s, 1, Len(s) - 1)) + DigitVal(SubSeq(s, Len(s), Len(s)))

\* int(x): a number as it is, a text of decimal digits parsed, anything else ValueError
PyInt(c) ==
    IF c.k = "num" THEN [exc |-> "none", val |-> c.n]
    ELSE IF c.k = "str" /\ IsDigitText(c.s) THEN [exc |-> "none", val |-> TextVal(c.s)]
    ELSE [exc |-> "ValueError", val |-> 0]

\* s[:n]
Prefix(s, n) == SubSeq(s, 1, IF Len(s) < n THEN Len(s) ELSE n)

\* s[n:]
Suffix(s, n) == IF Len(s) <= n THEN "" ELSE SubSeq(s, n + 1, Len(s))

\* s.find(ch): 0-based index of the first occurrence, -1 when there is none
Find(s, ch) ==
    IF \E i \in 1..Len(s) : SubSeq(s, i, i) = ch
    THEN (CHOOSE i \in 1..Len(s) :
              /\ SubSeq(s, i, i) = ch
              /\ \A j \in 1..(i - 1) : SubSeq(s, j, j) # ch) - 1
    ELSE -1

\* Series.str.contains(t) on one text: t occurs in s
Contains(s, t) ==
    \E i \in 1..(Len(s) - Len(t) + 1) : SubSeq(s, i, i + Len(t) - 1) = t

-----------------------------------------------------------------------------
(* Sequences                                                               *)

RECURSIVE UniqueAcc(_, _)
UniqueAcc(s, acc) ==
    IF s = <<>> THEN acc
    ELSE UniqueAcc(Tail(s),
                   IF \E i \in 1..Len(acc) : acc[i] = Head(s)
                   THEN acc ELSE Append(acc, Head(s)))

\* Series.unique(): the distinct values in order of first appearance
Unique(s) == UniqueAcc(s, <<>>)

\* position of a column name in a column list, 0 when absent
ColIdx(cols, name) ==
    IF \E i \in 1..Len(cols) : cols[i] = name
    THEN CHOOSE i \in 1..Len(cols) : cols[i] = name
    ELSE 0

\* row[name]
Get(cols, row, name) == row[ColIdx(cols, name)]

RECURSIVE SumSeq(_)
SumSeq(s) == IF s = <<>> THEN 0 ELSE Head(s) + SumSeq(Tail(s))

-----------------------------------------------------------------------------
(* Configuration (src/config.py)                                           *)

BUILDING_DAMAGE_ID == 5
CONTENTS_DAMAGE_ID == 6
SCENARIOS == <<"ida_1971", "ida_2021", "ida_2071">>
\* TERRAIN_THRESHOLDS, class -> (lower, upper) in thousandths; Inf stands for float('inf')
Inf == 1000000
TERRAIN_THRESHOLDS ==
    <<[lo |-> 0, hi |-> 30], [lo |-> 30, hi |-> 150], [lo |-> 150, hi |-> 350],
      [lo |-> 350, hi |-> 700], [lo |-> 700, hi |-> Inf]>>
\* BUILDING_SUBTYPE_RANGES, building type -> (first, end) as Python slice bounds;
\* end = -1 stands for None
BUILDING_SUBTYPE_RANGES ==
    [W |-> <<0, 5>>, M |-> <<5, 19>>, C |-> <<19, 25>>, S |-> <<25, 34>>, H |-> <<34, -1>>]

-----------------------------------------------------------------------------
(* The Hazus catalog: the five sheets of Mapping.xlsx and huDamLossFunc.csv *)
(* as read at lines 158-167 and 458.  The tables below are one catalog     *)
(* instance; the code takes them as input.  The percentages of a building   *)
(* type's columns add up to 100 or are all 0, except the concrete columns   *)
(* of LA1/RES1: three equal shares in whole percents, 99 together.          *)

\* the subtype columns of huGbsOccMapping, huOcc.columns[2:]
SbtCols ==
    <<"WSF1", "WSF2", "WMUH1", "WMUH2", "WMUH3",
      "MSF1", "MSF2", "MMUH1", "MMUH2", "MMUH3", "MLRM1", "MLRM2", "MLRI",
      "MERBL", "MERBM", "MERBH", "MECBL", "MECBM", "MECBH",
      "CERBL", "CERBM", "CERBH", "CECBL", "CECBM", "CECBH",
      "SPMBS", "SPMBM", "SPMBL", "SERBL", "SERBM", "SERBH", "SECBL", "SECBM", "SECBH",
      "MHPHUD", "MH76HUD", "MH94HUDI", "MH94HUDII", "MH94HUDIII">>

\* one row of percentages over SbtCols: the listed columns, 0 elsewhere
PctRow(f) == [i \in 1..Len(SbtCols) |-> IF SbtCols[i] \in DOMAIN f THEN f[SbtCols[i]] ELSE 0]

huMappingSchemesByCountyFips ==
    <<[CountyFIPS |-> 22071, huBldgSchemeName |-> "LA1"],
      [CountyFIPS |-> 22051, huBldgSchemeName |-> "LA2"]>>

huGbsOccMapping ==
    <<[huOccMapSchemeName |-> "LA1", Occupancy |-> "RES1",
       pct |-> PctRow("WSF1" :> 60 @@ "WSF2" :> 40 @@ "MSF1" :> 100
                      @@ "CERBL" :> 33 @@ "CERBM" :> 33 @@ "CERBH" :> 33
                      @@ "MHPHUD" :> 100)],
      [huOccMapSchemeName |-> "LA1", Occupancy |-> "COM1",
       pct |-> PctRow("WSF2" :> 100 @@ "MSF1" :> 50 @@ "MSF2" :> 50)],
      [huOccMapSchemeName |-> "LA2", Occupancy |-> "RES1",
       pct |-> PctRow("WSF1" :> 100 @@ "MSF2" :> 100 @@ "MHPHUD" :> 100)]>>

huListofBldgChar ==
    <<[CharType |-> "Roof Shape", BldgCharID |-> 1, BldgChar |-> "rship"],
      [CharType |-> "Roof Shape", BldgCharID |-> 2, BldgChar |-> "rsgab"],
      [CharType |-> "Shutters", BldgCharID |-> 3, BldgChar |-> "shtys"],
      [CharType |-> "Shutters", BldgCharID |-> 4, BldgChar |-> "shtno"],
      [CharType |-> "Garage, Houses with Shutters", BldgCharID |-> 5, BldgChar |-> "gdsup"],
      [CharType |-> "Garage, Houses with Shutters", BldgCharID |-> 6, BldgChar |-> "gdnod"],
      [CharType |-> "Garage, Houses w/out Shutters", BldgCharID |-> 7, BldgChar |-> "gdwkd"],
      [CharType |-> "Garage, Houses w/out Shutters", BldgCharID |-> 8, BldgChar |-> "gdstd"]>>

BldgMap(scheme, sbt, id, pct) ==
    [huBldgSchemeName |-> scheme, sbtName |-> sbt, BLDGCHARID |-> id, PercentDist |-> pct]

huBldgMapping ==
    <<BldgMap("LA1", "WSF1", 1, 70), BldgMap("LA1", "WSF1", 2, 30),
      BldgMap("LA1", "WSF1", 3, 50), BldgMap("LA1", "WSF1", 4, 50),
      BldgMap("LA1", "WSF1", 5, 100),
      BldgMap("LA1", "WSF1", 7, 40), BldgMap("LA1", "WSF1", 8, 60),
      BldgMap("LA1", "WSF2", 1, 50), BldgMap("LA1", "WSF2", 2, 50),
      BldgMap("LA1", "MHPHUD", 3, 20), BldgMap("LA1", "MHPHUD", 4, 80),
      BldgMap("LA1", "MSF2", 1, 100),
      BldgMap("LA2", "WSF1", 2, 100),
      BldgMap("LA2", "WSF1", 4, 100),
      BldgMap("LA2", "MHPHUD", 3, 100)>>

WindType(sbt, id, desc) == [sbtName |-> sbt, wbID |-> id, charDescription |-> desc]

huListOfWindBldgTypes ==
    <<WindType("WSF1", 11, "rship shtys gdsup"),
      WindType("WSF1", 12, "rsgab shtys gdsup"),
      WindType("WSF1", 13, "rship shtno gdwkd"),
      WindType("WSF1", 14, "rsgab shtno gdwkd"),
      WindType("WSF1", 15, "rship shtno gdsup"),
      WindType("WSF2", 21, "rship"),
      WindType("WSF2", 22, "rsgab"),
      WindType("MSF2", 31, "flat roof")>>

\* the wind-speed columns of huDamLossFunc.csv, after wbID, TERRAINID, DamLossDescID
CurveCols == <<"WS50", "WS100", "WS150">>

Curve(id, terrain, desc, ratios) ==
    [wbID |-> id, TERRAINID |-> terrain, DamLossDescID |-> desc, vals |-> ratios]

huDamLossFunc ==
    <<Curve(12, 3, 5, <<0, 500, 1000>>), Curve(12, 3, 6, <<0, 200, 600>>),
      Curve(12, 1, 5, <<100, 700, 1000>>), Curve(12, 1, 6, <<50, 400, 900>>),
      Curve(21, 3, 5, <<20, 300, 800>>), Curve(21, 3, 6, <<10, 100, 500>>),
      Curve(13, 3, 5, <<0, 400, 1000>>),
      Curve(14, 3, 6, <<0, 100, 300>>),
      Curve(11, 1, 5, <<0, 500, 1000>>), Curve(11, 1, 6, <<0, 200, 600>>)>>

-----------------------------------------------------------------------------
(* The building inventory                                                  *)

\* Columns of the inventory in file order.  The loss calculator reads fd_id,
\* cbfips, val_struct and val_cont by position (lines 495, 496, 526, 527), which
\* fixes their places; the other columns stand for the remaining NSI and join
\* columns.  cbfips is shortened to the county code plus four block digits.
SrcCols ==
    <<"Unnamed: 0", "fd_id", "occtype", "cbfips", "bldgtype", "found_type", "sqft",
      "num_story", "nsi_val.SURFACEROU", "med_yr_blt", "x", "y", "val_struct",
      "val_cont", "Gust_Wind_Speed">>

\* one inventory row as pd.read_csv delivers it
Bldg(id, occ, fips, type, rough, vs, vc, gust) ==
    <<Num(id), Num(id), Str(occ), Num(fips), Str(type), Str("S"), Num(1500),
      Num(1), Num(rough), Num(1990), Num(0), Num(0), Num(vs), Num(vc), gust>>

-----------------------------------------------------------------------------
(* Terrain classification, lines 334-345                                   *)

\* a variant with the first boundary open, which C4's formula tells from the code's
TerrainIDOpen(terrain) ==
    IF terrain < 30 THEN 1
    ELSE IF terrain <= 150 THEN 2
    ELSE IF terrain <= 350 THEN 3
    ELSE IF terrain <= 700 THEN 4
    ELSE 5

TerrainID(terrain) ==
    IF terrain <= 30 THEN 1
    ELSE IF 30 < terrain /\ terrain <= 150 THEN 2
    ELSE IF 150 < terrain /\ terrain <= 350 THEN 3
    ELSE IF 350 < terrain /\ terrain <= 700 THEN 4
    ELSE 5

-----------------------------------------------------------------------------
(* Weighted draws                                                          *)

RANDOM_SEED == 121

\* cdf = p.cumsum(), in hundredths
Cdf(p, j) == SumSeq(SubSeq(p, 1, j))

\* np.random.choice(a, p=p) on the uniform draw u (hundredths, 0 <= u < 100):
\* validates the arguments, then returns a[cdf.searchsorted(u, side='right')]
Choice(a, p, u) ==
    IF Len(a) = 0 \/ Len(a) # Len(p) \/ (\E j \in 1..Len(p) : p[j] < 0)
       \/ SumSeq(p) # 100
    THEN [exc |-> "ValueError", val |-> ""]
    ELSE [exc |-> "none",
          val |-> a[1 + Cardinality({j \in 1..Len(p) : Cdf(p, j) <= u})]]

\* the draws of one pass put together: the first failing draw fails the pass
PassOf(draws) ==
    IF \E k \in 1..Len(draws) : draws[k].exc # "none"
    THEN [exc |-> "ValueError", vals |-> <<>>]
    ELSE [exc |-> "none", vals |-> [k \in 1..Len(draws) |-> draws[k].val]]

\* a variant in which the generator has made one draw since it was seeded when
\* the pass starts, which C27's formula tells from the code's
SamplePassLate(n, a, p, u) == PassOf([k \in 1..n |-> Choice(a, p, u[(k % Len(u)) + 1])])

\* np.random.seed(seed), then Series.apply of one draw per row: row k of the
\* group receives the k-th draw of the freshly seeded stream (lines 256-258, 297-299)
SamplePass(n, a, p, u) == PassOf([k \in 1..n |-> Choice(a, p, u[k])])

-----------------------------------------------------------------------------
(* The characterization loop, lines 195-351                                *)

\* s[a:b] of a Python sequence; b = -1 stands for an open end
PySlice(s, a, b) ==
    LET hi == IF b = -1 \/ b > Len(s) THEN Len(s) ELSE b
    IN IF a >= hi THEN <<>> ELSE SubSeq(s, a + 1, hi)

\* lines 176: the characteristic types in catalog order
charTypes == Unique([i \in 1..Len(huListofBldgChar) |-> huListofBldgChar[i].CharType])

\* the columns of df2 and df3 while a group is processed
GroupCols == SrcCols \o <<"countyFIPS", "sbtName">>
OutCols == GroupCols \o charTypes \o <<"wbID", "terrainID">>

\* line 181: nsi_cb['countyFIPS'] = nsi_cb['cbfips'].astype(str).str[:5]
WithCountyFIPS(rows) ==
    [i \in 1..Len(rows) |->
        Append(rows[i], Str(Prefix(PyStr(Get(SrcCols, rows[i], "cbfips")).s, 5)))]

\* lines 239-250: the subtype names of a building type, as a slice of Occschemes
KnownBldgType(bldgType) == bldgType \in {"W", "M", "C", "S", "H"}

\* a variant whose masonry range starts one column early, at the last wood column,
\* which C20's formula tells from the code's
SubtypeSliceEarly(s, bldgType) ==
    IF bldgType = "W" THEN PySlice(s, 0, 5)
    ELSE IF bldgType = "M" THEN PySlice(s, 4, 19)
    ELSE IF bldgType = "C" THEN PySlice(s, 19, 25)
    ELSE IF bldgType = "S" THEN PySlice(s, 25, 34)
    ELSE PySlice(s, 34, -1)

\* lines 239-250: the columns of a building-type code
SubtypeSlice(s, bldgType) ==
    IF bldgType = "W" THEN PySlice(s, 0, 5)
    ELSE IF bldgType = "M" THEN PySlice(s, 5, 19)
    ELSE IF bldgType = "C" THEN PySlice(s, 19, 25)
    ELSE IF bldgType = "S" THEN PySlice(s, 25, 34)
    ELSE PySlice(s, 34, -1)

\* values.flatten().tolist() of the selected columns over every selected row
RECURSIVE FlattenPct(_, _)
FlattenPct(huOcc, bldgType) ==
    IF huOcc = <<>> THEN <<>>
    ELSE SubtypeSlice(Head(huOcc).pct, bldgType) \o FlattenPct(Tail(huOcc), bldgType)

\* sort_values(by=['BLDGCHARID'])
RECURSIVE SortByCharId(_)
SortByCharId(s) ==
    IF s = <<>> THEN <<>>
    ELSE LET m == CHOOSE i \in 1..Len(s) :
                      \A j \in 1..Len(s) :
                          \/ s[i].BLDGCHARID < s[j].BLDGCHARID
                          \/ (s[i].BLDGCHARID = s[j].BLDGCHARID /\ i <= j)
         IN <<s[m]>> \o SortByCharId(SubSeq(s, 1, m - 1) \o SubSeq(s, m + 1, Len(s)))

\* line 279: the catalog rows of one characteristic type
CharRows(charType) == SelectSeq(huListofBldgChar, LAMBDA r : r.CharType = charType)

\* lines 287-288: the subtype's distribution rows of that type, by BLDGCHARID
ProbsDf(huBldg, main) ==
    SortByCharId(SelectSeq(huBldg,
        LAMBDA r : \E i \in 1..Len(main) : main[i].BldgCharID = r.BLDGCHARID))

\* a variant that takes every characteristic type to apply to a subtype that has
\* distribution rows, which C21's formula tells from the code's
PlanOfAnyType(huBldg, main, probs_df) ==
    [check |-> Len(huBldg) > 0,
     bldgChar1 |-> IF Len(probs_df) < Len(main)
                   THEN PySlice([i \in 1..Len(main) |-> main[i].BldgChar], 0, Len(probs_df))
                   ELSE [i \in 1..Len(main) |-> main[i].BldgChar],
     probs |-> [i \in 1..Len(probs_df) |-> probs_df[i].PercentDist]]

\* lines 280-294: whether the type applies to the subtype, the candidate values
\* and their probabilities
PlanOf(huBldg, main, probs_df) ==
    [check |-> \E i \in 1..Len(main), j \in 1..Len(huBldg) :
                   main[i].BldgCharID = huBldg[j].BLDGCHARID,
     bldgChar1 |-> IF Len(probs_df) < Len(main)
                   THEN PySlice([i \in 1..Len(main) |-> main[i].BldgChar], 0, Len(probs_df))
                   ELSE [i \in 1..Len(main) |-> main[i].BldgChar],
     probs |-> [i \in 1..Len(probs_df) |-> probs_df[i].PercentDist]]

CharPlanOf(huBldg, main) == PlanOf(huBldg, main, ProbsDf(huBldg, main))

\* lines 278-294 for one characteristic type
CharPlan(huBldg, charType) == CharPlanOf(huBldg, CharRows(charType))

\* lines 295-301: the pass of an applicable type, none for the others
PlanPass(plan, n, u) ==
    IF plan.check
    THEN [check |-> TRUE] @@ SamplePass(n, plan.bldgChar1, plan.probs, u)
    ELSE [check |-> FALSE, exc |-> "none", vals |-> <<>>]

\* lines 277-301: one sampling pass per applicable characteristic type
CharPass(huBldg, charType, n, u) == PlanPass(CharPlan(huBldg, charType), n, u)

\* a variant with the two garage types exchanged, which C23's formula tells from
\* the code's
ShutterRuleSwapped(char_desc, shutters) ==
    IF \E i \in 1..Len(char_desc) : char_desc[i] = "Shutters"
    THEN IF shutters = Str("shtys")
         THEN SelectSeq(char_desc, LAMBDA c : c # "Garage, Houses with Shutters")
         ELSE SelectSeq(char_desc, LAMBDA c : c # "Garage, Houses w/out Shutters")
    ELSE char_desc

\* lines 311-317: the characteristic types used for matching, after the shutter rule
ShutterRule(char_desc, shutters) ==
    IF \E i \in 1..Len(char_desc) : char_desc[i] = "Shutters"
    THEN IF shutters = Str("shtys")
         THEN SelectSeq(char_desc, LAMBDA c : c # "Garage, Houses w/out Shutters")
         ELSE SelectSeq(char_desc, LAMBDA c : c # "Garage, Houses with Shutters")
    ELSE char_desc

\* a variant that narrows even when nothing matches, which C24's formula tells
\* from the code's
RECURSIVE NarrowStrict(_, _, _)
NarrowStrict(wbId_df, chars, row) ==
    IF chars = <<>> THEN wbId_df
    ELSE NarrowStrict(SelectSeq(wbId_df,
                                LAMBDA r : Contains(r.charDescription,
                                                    Get(OutCols, row, Head(chars)).s)),
                      Tail(chars), row)

\* lines 320-323: narrow the candidates by each characteristic, keeping the
\* previous set when nothing matches
RECURSIVE Narrow(_, _, _)
Narrow(wbId_df, chars, row) ==
    IF chars = <<>> THEN wbId_df
    ELSE LET val == Get(OutCols, row, Head(chars)).s
             sample1 == SelectSeq(wbId_df, LAMBDA r : Contains(r.charDescription, val))
         IN Narrow(IF Len(sample1) # 0 THEN sample1 ELSE wbId_df, Tail(chars), row)

\* a variant that takes the last remaining candidate, which C25's formula tells
\* from the code's
LastWbID(wbID) == IF Len(wbID) = 0 THEN NA ELSE Num(wbID[Len(wbID)].wbID)

\* lines 325-332: the first remaining candidate, pd.NA when there is none
FirstWbID(wbID) == IF Len(wbID) = 0 THEN NA ELSE Num(wbID[1].wbID)

\* lines 305-332: the wind building type of one row of df3
ResolveWbID(sbt, char_desc, row) ==
    FirstWbID(Narrow(SelectSeq(huListOfWindBldgTypes, LAMBDA r : r.sbtName = sbt),
                     ShutterRule(char_desc,
                                 IF \E i \in 1..Len(char_desc) : char_desc[i] = "Shutters"
                                 THEN Get(OutCols, row, "Shutters") ELSE NA),
                     row))

\* lines 335-345 on the roughness cell: every comparison with NaN is false
TerrainOf(c) == IF IsNA(c) THEN 5 ELSE TerrainID(c.n)

\* lines 348-350: datas
Datas(sbt, char_desc, row) ==
    [i \in 1..Len(row) |-> PyStr(row[i])]
        \o <<ResolveWbID(sbt, char_desc, row),
             Str(ToString(TerrainOf(Get(OutCols, row, "nsi_val.SURFACEROU"))))>>

\* the passes that raised
Failed(pass) == {c \in 1..Len(pass) : pass[c].exc # "none"}

\* the draws made before the first pass that raised
DrawsOf(pass, n) ==
    n * Cardinality({c \in 1..Len(pass) :
                        pass[c].check /\ \A f \in Failed(pass) : c < f})

\* lines 295-301: df3 with one column per characteristic type, pd.NA where
\* the type does not apply
WithChars(df3, pass) ==
    [k \in 1..Len(df3) |->
        df3[k] \o [c \in 1..Len(pass) |->
                      IF pass[c].check THEN Str(pass[c].vals[k]) ELSE NA]]

\* line 295: char_desc, the types that apply
CharDesc(pass) ==
    SelectSeq(charTypes, LAMBDA t : pass[ColIdx(charTypes, t)].check)

\* lines 304-351: the output rows of the group
GroupRows(sbt, char_desc, full) ==
    [k \in 1..Len(full) |-> Datas(sbt, char_desc, full[k])]

\* lines 271-351 once the subtype's distribution rows are known
SubtypeResult(df3, sbt, huBldg, pass) ==
    IF Len(huBldg) = 0 THEN [exc |-> "none", out |-> <<>>, draws |-> 0]
    ELSE IF Failed(pass) # {}
    THEN [exc |-> "ValueError", out |-> <<>>, draws |-> DrawsOf(pass, Len(df3))]
    ELSE [exc |-> "none",
          out |-> GroupRows(sbt, CharDesc(pass), WithChars(df3, pass)),
          draws |-> DrawsOf(pass, Len(df3))]

\* lines 277-301: the passes over the characteristic types
CharPasses(huBldg, n, u) ==
    [c \in 1..Len(charTypes) |-> CharPass(huBldg, charTypes[c], n, u)]

SubtypeOf(df3, sbt, huBldg, u) ==
    SubtypeResult(df3, sbt, huBldg, CharPasses(huBldg, Len(df3), u))

\* lines 263-351: one subtype group df3 of df2
ProcessSubtype(df3, scheme, sbt, u) ==
    SubtypeOf(df3, sbt,
              SelectSeq(huBldgMapping,
                        LAMBDA r : r.huBldgSchemeName = scheme /\ r.sbtName = sbt),
              u)

\* building_list.append and the draws of one group added to the running result
Extend(acc, r) ==
    [acc EXCEPT !.exc = r.exc, !.out = @ \o r.out, !.draws = @ + r.draws]

RECURSIVE SbtLoop(_, _, _, _, _)
SbtLoop(sbts, df2, scheme, u, acc) ==
    IF sbts = <<>> \/ acc.exc # "none" THEN acc
    ELSE SbtLoop(Tail(sbts), df2, scheme, u,
             Extend(acc,
                 ProcessSubtype(
                     SelectSeq(df2, LAMBDA row : Get(GroupCols, row, "sbtName") = Str(Head(sbts))),
                     scheme, Head(sbts), u)))

\* lines 256-262: df2 with its sbtName column, group by group
SubtypeGroups(df2, scheme, u, acc, pass) ==
    IF pass.exc # "none" THEN [acc EXCEPT !.exc = pass.exc]
    ELSE SbtLoop(Unique(pass.vals),
                 [k \in 1..Len(df2) |-> Append(df2[k], Str(pass.vals[k]))],
                 scheme, u, [acc EXCEPT !.draws = @ + Len(df2)])

\* lines 236-262: one building-type group df2 of df1
ProcessBldgType(df2, scheme, huOcc, bldgType, u, acc) ==
    IF ~KnownBldgType(bldgType) THEN acc
    ELSE SubtypeGroups(df2, scheme, u, acc,
             SamplePass(Len(df2), SubtypeSlice(SbtCols, bldgType),
                        FlattenPct(huOcc, bldgType), u))

RECURSIVE BldgTypeLoop(_, _, _, _, _, _)
BldgTypeLoop(bldgTypes, df1, scheme, huOcc, u, acc) ==
    IF bldgTypes = <<>> \/ acc.exc # "none" THEN acc
    ELSE BldgTypeLoop(Tail(bldgTypes), df1, scheme, huOcc, u,
             ProcessBldgType(
                 SelectSeq(df1, LAMBDA row : Get(SrcCols, row, "bldgtype") = Str(Head(bldgTypes))),
                 scheme, huOcc, Head(bldgTypes), u, acc))

\* lines 222-225: the occupancy code without its suffix
BaseOccupancy(occ) == IF Find(occ, "-") >= 0 THEN Prefix(occ, Find(occ, "-")) ELSE occ

\* lines 227-235: the building types of an occupancy group that has a mapping
OccGroups(df1, scheme, huOcc, u, acc) ==
    IF Len(huOcc) = 0 THEN acc
    ELSE BldgTypeLoop(Unique([k \in 1..Len(df1) |-> Get(SrcCols, df1[k], "bldgtype").s]),
                      df1, scheme, huOcc, u, acc)

\* lines 220-235: one occupancy group df1 of df0
ProcessOcc(occ, df0, huOccMap, scheme, u, acc) ==
    OccGroups(SelectSeq(df0, LAMBDA row : Get(SrcCols, row, "occtype") = Str(occ)),
              scheme,
              SelectSeq(huOccMap, LAMBDA r : r.Occupancy = BaseOccupancy(occ)),
              u, acc)

RECURSIVE OccLoop(_, _, _, _, _, _)
OccLoop(occtypes, df0, huOccMap, scheme, u, acc) ==
    IF occtypes = <<>> \/ acc.exc # "none" THEN acc
    ELSE OccLoop(Tail(occtypes), df0, huOccMap, scheme, u,
                 ProcessOcc(Head(occtypes), df0, huOccMap, scheme, u, acc))

\* lines 208-209: the rows of the scheme table for a key
SchemeRows(key) ==
    SelectSeq(huMappingSchemesByCountyFips,
              LAMBDA r : key.exc = "none" /\ r.CountyFIPS = key.val)

\* lines 209-213: the first hit, none when .iloc[0] raises
FirstScheme(hit) ==
    IF Len(hit) = 0 THEN [found |-> FALSE, name |-> ""]
    ELSE [found |-> TRUE, name |-> hit[1].huBldgSchemeName]

\* lines 207-213: the scheme of a county; any exception of the lookup means "none"
SchemeOf(cfip) == FirstScheme(SchemeRows(PyInt(Str(cfip))))

\* lines 211-219: the occupancy groups of a county that has a scheme
CountyGroups(df0, scheme, u, acc) ==
    IF ~scheme.found THEN [acc EXCEPT !.warn = @ + 1]
    ELSE OccLoop(Unique([k \in 1..Len(df0) |-> Get(SrcCols, df0[k], "occtype").s]),
                 df0,
                 SelectSeq(huGbsOccMapping, LAMBDA r : r.huOccMapSchemeName = scheme.name),
                 scheme.name, u, acc)

\* lines 197-351: one county
ProcessCounty(cfip, nsi_cb, u, acc) ==
    CountyGroups(SelectSeq(nsi_cb, LAMBDA row : Get(GroupCols, row, "countyFIPS") = Str(cfip)),
                 SchemeOf(cfip), u, acc)

RECURSIVE CountyLoop(_, _, _, _)
CountyLoop(cf, nsi_cb, u, acc) ==
    IF cf = <<>> \/ acc.exc # "none" THEN acc
    ELSE CountyLoop(Tail(cf), nsi_cb, u, ProcessCounty(Head(cf), nsi_cb, u, acc))

\* lines 186-351: building_list after the loop over the given county list
BuildingList(cf, nsi_cb, u) ==
    CountyLoop(cf, WithCountyFIPS(nsi_cb), u,
               [exc |-> "none", out |-> <<>>, draws |-> 0, warn |-> 0])

-----------------------------------------------------------------------------
(* CSV files: DataFrame.to_csv(index=False) and pd.read_csv                *)

\* the text to_csv writes for a cell; a missing value is written empty
CsvText(c) == IF c.k = "num" THEN ToString(c.n) ELSE IF c.k = "na" THEN "" ELSE c.s

ToCsv(cols, rows) ==
    [exists |-> TRUE, readable |-> TRUE, cols |-> cols,
     rows |-> [i \in 1..Len(rows) |-> [j \in 1..Len(rows[i]) |-> CsvText(rows[i][j])]]]

NoFile == [exists |-> FALSE, readable |-> FALSE, cols |-> <<>>, rows |-> <<>>]

\* a file that exists and that read_csv cannot parse
BadFile == [exists |-> TRUE, readable |-> FALSE, cols |-> <<>>, rows |-> <<>>]

\* texts read_csv takes for a missing value (those of its defaults the model writes)
NaTokens == {"", "<NA>", "nan", "NaN", "NA"}

\* read_csv infers a column's type from all its values: numbers when every value
\* present is a number, texts otherwise
ReadCsv(file) ==
    LET numeric(j) == \A i \in 1..Len(file.rows) :
                          file.rows[i][j] \in NaTokens \/ IsDigitText(file.rows[i][j])
        cell(i, j) == IF file.rows[i][j] \in NaTokens THEN NaN
                      ELSE IF numeric(j) THEN Num(TextVal(file.rows[i][j]))
                      ELSE Str(file.rows[i][j])
    IN [cols |-> file.cols,
        rows |-> [i \in 1..Len(file.rows) |->
                     [j \in 1..Len(file.rows[i]) |-> cell(i, j)]]]

NoFrame == [cols |-> <<>>, rows |-> <<>>]

-----------------------------------------------------------------------------
(* characterize_buildings, lines 111-371                                   *)

NoEffect == [reads |-> 0, draws |-> 0, writes |-> 0, warns |-> 0]

\* line 182: cfips = [str(io) for i in nsi_cb['countyFIPS'].unique()].  The name io
\* is bound nowhere in the module, so evaluating the element expression raises
\* NameError; with no county the expression is never evaluated.
Cfips(nsi_cb) ==
    IF Len(Unique([i \in 1..Len(nsi_cb) |-> Get(GroupCols, nsi_cb[i], "countyFIPS").s])) > 0
    THEN [exc |-> "NameError", val |-> <<>>]
    ELSE [exc |-> "none", val |-> <<>>]

\* lines 353-371: the final frame and the checkpoint.  The local name rows is
\* bound by the first row the loop reaches (line 305); line 358 reads it.
FrameOf(bl, file, e1) ==
    IF bl.exc # "none"
    THEN [exc |-> bl.exc, ret |-> NoFrame, ckpt |-> file, eff |-> e1]
    ELSE IF Len(bl.out) = 0
    THEN [exc |-> "UnboundLocalError", ret |-> NoFrame, ckpt |-> file, eff |-> e1]
    ELSE [exc |-> "none",
          ret |-> [cols |-> OutCols, rows |-> bl.out],
          ckpt |-> ToCsv(OutCols, bl.out),
          eff |-> [e1 EXCEPT !.writes = @ + 1]]

LoopEffect(bl, file, e) ==
    FrameOf(bl, file, [e EXCEPT !.draws = @ + bl.draws, !.warns = @ + bl.warn])

\* the stream as a generator that has made n draws goes on with it
Shifted(u, n) == [k \in 1..Len(u) |-> u[((k - 1 + n) % Len(u)) + 1]]

\* a variant without the np.random.seed calls, whose draws go on where the draws
\* made before left the generator, which C14's formula tells from the code's
CharacterizeLoopUnseeded(cf, nsi_cb, u, file, e) ==
    LoopEffect(BuildingList(cf, nsi_cb, Shifted(u, e.draws)), file, e)

\* lines 185-371 for a given county list: the loop, the final frame, the checkpoint
CharacterizeLoopResult(cf, nsi_cb, u, file, e) ==
    LoopEffect(BuildingList(cf, nsi_cb, u), file, e)

\* a variant that looks at the checkpoint only under the force flag, which C1's
\* formula tells from the code's
CheckpointWantedOnForce(file, force_rerun) == file.exists /\ force_rerun

\* line 122: the checkpoint is looked at
CheckpointWanted(file, force_rerun) == file.exists /\ ~force_rerun

\* lines 136-371: the build
BuildFrom(nsi_data, file, hasMapping, u, cf, e0) ==
    IF ~hasMapping
    THEN [exc |-> "FileNotFoundError", ret |-> NoFrame, ckpt |-> file, eff |-> e0]
    ELSE IF cf.exc # "none"
    THEN [exc |-> cf.exc, ret |-> NoFrame, ckpt |-> file,
          eff |-> [e0 EXCEPT !.reads = 5]]
    ELSE CharacterizeLoopResult(cf.val, nsi_data, u, file, [e0 EXCEPT !.reads = 5])

\* the whole function
characterize_buildings(nsi_data, file, force_rerun, hasMapping, u) ==
    IF CheckpointWanted(file, force_rerun) /\ file.readable
    THEN [exc |-> "none", ret |-> ReadCsv(file), ckpt |-> file, eff |-> NoEffect]
    ELSE BuildFrom(nsi_data, file, hasMapping, u,
                   Cfips(WithCountyFIPS(nsi_data)),
                   [NoEffect EXCEPT
                        !.warns = IF CheckpointWanted(file, force_rerun) THEN 1 ELSE 0])

-----------------------------------------------------------------------------
(* calculate_building_losses, lines 448-572                                *)

LossCols ==
    <<"fd_id", "countyFIPS", "wbID", "terrainID", "Wind_Speed", "Building_Loss",
      "Contents_Loss">>

\* row.dropna(): the cells of the row that are not missing, in order
DropNA(row) == SelectSeq(row, LAMBDA c : ~IsNA(c))

\* line 530: wind_speeds = [int(i[2:]) for i in bldgLossFunc.columns]
WindSpeeds(cols) == [i \in 1..Len(cols) |-> TextVal(Suffix(cols[i], 2))]

\* values.flatten().tolist() of the curve rows selected
RECURSIVE FlattenVals(_)
FlattenVals(curves) ==
    IF curves = <<>> THEN <<>> ELSE Head(curves).vals \o FlattenVals(Tail(curves))

\* a variant that takes the ratio of the breakpoint below instead of blending, which
\* C6's formula tells from the code's
InterpStep(x, xp, fp) ==
    IF x <= xp[1] THEN fp[1]
    ELSE IF x >= xp[Len(xp)] THEN fp[Len(xp)]
    ELSE fp[CHOOSE i \in 1..(Len(xp) - 1) : xp[i] <= x /\ x < xp[i + 1]]

\* np.interp(x, xp, fp) for increasing xp: fp[0] up to xp[0], fp[-1] from xp[-1] on,
\* and on the segment xp[j] <= x < xp[j+1] the value slope * (x - xp[j]) + fp[j].
\* The catalog's numbers make the division exact.
Interp(x, xp, fp) ==
    IF x <= xp[1] THEN fp[1]
    ELSE IF x >= xp[Len(xp)] THEN fp[Len(xp)]
    ELSE LET j == CHOOSE i \in 1..(Len(xp) - 1) : xp[i] <= x /\ x < xp[i + 1]
         IN fp[j] + ((fp[j + 1] - fp[j]) * (x - xp[j])) \div (xp[j + 1] - xp[j])

\* lines 509-518: the curve rows of a wind building type, terrain and damage class
LossFunc(wbID, terrain_ID, descID) ==
    SelectSeq(huDamLossFunc,
              LAMBDA r : r.wbID = wbID /\ r.TERRAINID = terrain_ID
                         /\ r.DamLossDescID = descID)

\* lines 533-534: np.interp(wind_speed, wind_speeds, values) * value
LossAmount(wind_speed, values, value) ==
    IF IsNA(wind_speed) THEN NaN
    ELSE Num(Interp(wind_speed.n, WindSpeeds(CurveCols), values) * value.n)

\* a variant that uses the structural curve for the contents, which C7's formula
\* tells from the code's
RowAmountsOneCurve(row1, wbID, terrain_ID, wind_speed, values_str, values_cont) ==
    IF Len(row1) < 14 THEN [exc |-> "IndexError", out |-> <<>>]
    ELSE IF Len(values_str) # Len(CurveCols) \/ Len(values_cont) # Len(CurveCols)
    THEN [exc |-> "ValueError", out |-> <<>>]
    ELSE IF row1[13].k # "num" \/ row1[14].k # "num"
    THEN [exc |-> "TypeError", out |-> <<>>]
    ELSE [exc |-> "none",
          out |-> <<<<row1[2], row1[4], Num(wbID), Num(terrain_ID), wind_speed,
                      LossAmount(wind_speed, values_str, row1[13]),
                      LossAmount(wind_speed, values_str, row1[14])>>>>]

\* lines 526-537: the loss row of a building with wind and both curves
RowAmounts(row1, wbID, terrain_ID, wind_speed, values_str, values_cont) ==
    IF Len(row1) < 14 THEN [exc |-> "IndexError", out |-> <<>>]
    ELSE IF Len(values_str) # Len(CurveCols) \/ Len(values_cont) # Len(CurveCols)
    THEN [exc |-> "ValueError", out |-> <<>>]
    ELSE IF row1[13].k # "num" \/ row1[14].k # "num"
    THEN [exc |-> "TypeError", out |-> <<>>]
    ELSE [exc |-> "none",
          out |-> <<<<row1[2], row1[4], Num(wbID), Num(terrain_ID), wind_speed,
                      LossAmount(wind_speed, values_str, row1[13]),
                      LossAmount(wind_speed, values_cont, row1[14])>>>>]

\* lines 520-521: a building without either curve is skipped
RowCurves(row1, wbID, terrain_ID, wind_speed, bldgLossFunc, contLossFunc) ==
    IF Len(bldgLossFunc) = 0 \/ Len(contLossFunc) = 0
    THEN [exc |-> "none", out |-> <<>>]
    ELSE RowAmounts(row1, wbID, terrain_ID, wind_speed,
                    FlattenVals(bldgLossFunc), FlattenVals(contLossFunc))

\* lines 496-518: the keys of the row, its wind row and its two curves
RowKeys(row1, wbID, terrain_ID, wind_df) ==
    IF wbID.exc # "none" \/ terrain_ID.exc # "none"
    THEN [exc |-> "ValueError", out |-> <<>>]
    ELSE IF Len(wind_df) = 0 THEN [exc |-> "none", out |-> <<>>]
    ELSE RowCurves(row1, wbID.val, terrain_ID.val, wind_df[1].Gust_Wind_Speed,
                   LossFunc(wbID.val, terrain_ID.val, BUILDING_DAMAGE_ID),
                   LossFunc(wbID.val, terrain_ID.val, CONTENTS_DAMAGE_ID))

\* lines 493-499: the positional reads of the row without its missing cells
RowReads(row1, nsi_wrf) ==
    IF Len(row1) < 4 THEN [exc |-> "IndexError", out |-> <<>>]
    ELSE RowKeys(row1, PyInt(row1[Len(row1) - 1]), PyInt(row1[Len(row1)]),
                 SelectSeq(nsi_wrf, LAMBDA w : w.fd_id = row1[2]))

\* lines 492-537 for one inventory row: an exception, a skip, or one loss row
LossRow(row, nsi_wrf) == RowReads(DropNA(row), nsi_wrf)

\* a variant that appends every loss row twice, which C5's formula tells from the
\* code's
CollectTwice(acc, r) == [exc |-> r.exc, out |-> acc.out \o r.out \o r.out]

\* losses.append
Collect(acc, r) == [exc |-> r.exc, out |-> acc.out \o r.out]

RECURSIVE LossRows(_, _, _)
LossRows(rows, nsi_wrf, acc) ==
    IF rows = <<>> \/ acc.exc # "none" THEN acc
    ELSE LossRows(Tail(rows), nsi_wrf, Collect(acc, LossRow(Head(rows), nsi_wrf)))

\* lines 547-549: line 548 names seven columns, which a frame built from an empty
\* list does not have
LossFrame(r) ==
    IF r.exc # "none" THEN r
    ELSE IF Len(r.out) = 0 THEN [exc |-> "ValueError", out |-> <<>>]
    ELSE r

\* lines 481-566 for one scenario: the losses frame, or the exception re-raised at
\* line 566
ScenarioLosses(building_inventory, nsi_wrf) ==
    LossFrame(LossRows(building_inventory.rows, nsi_wrf, [exc |-> "none", out |-> <<>>]))

\* a variant that never takes an output found on disk, which C11's formula tells
\* from the code's
OutputNeverWanted(file, force_rerun) == FALSE

\* lines 474-479: the scenario's output is looked at
OutputWanted(file, force_rerun) == file.exists /\ ~force_rerun

\* lines 465-566 for one scenario: skipped when its output is there, else computed
\* and written
ScenarioStep(acc, s, force_rerun, r) ==
    IF OutputWanted(acc.files[s], force_rerun)
    THEN [acc EXCEPT !.paths = Append(@, s)]
    ELSE IF r.exc # "none"
    THEN [acc EXCEPT !.exc = r.exc, !.eff.reads = @ + 1]
    ELSE [acc EXCEPT !.files[s] = ToCsv(LossCols, r.out),
                     !.paths = Append(@, s),
                     !.eff.reads = @ + 1, !.eff.writes = @ + 1]

\* lines 465-566: the scenarios in order; acc holds the files, the paths returned
\* so far and the exception that ended the loop
RECURSIVE ScenarioLoop(_, _, _, _, _)
ScenarioLoop(scs, building_inventory, wind, force_rerun, acc) ==
    IF scs = <<>> \/ acc.exc # "none" THEN acc
    ELSE ScenarioLoop(Tail(scs), building_inventory, wind, force_rerun,
             ScenarioStep(acc, Head(scs), force_rerun,
                          ScenarioLosses(building_inventory, wind[Head(scs)])))

\* a variant that looks for the curve table only when a scenario is to be computed,
\* which C18's formula tells from the code's
CalculateLateCheck(building_inventory, wind, hasDamage, files, force_rerun) ==
    IF ~hasDamage
       /\ \E i \in 1..Len(SCENARIOS) : ~(files[SCENARIOS[i]].exists /\ ~force_rerun)
    THEN [exc |-> "FileNotFoundError", files |-> files, paths |-> <<>>, eff |-> NoEffect]
    ELSE ScenarioLoop(SCENARIOS, building_inventory, wind, force_rerun,
                      [exc |-> "none", files |-> files, paths |-> <<>>,
                       eff |-> [NoEffect EXCEPT !.reads = 1]])

\* the whole function
calculate_building_losses(building_inventory, wind, hasDamage, files, force_rerun) ==
    IF ~hasDamage
    THEN [exc |-> "FileNotFoundError", files |-> files, paths |-> <<>>, eff |-> NoEffect]
    ELSE ScenarioLoop(SCENARIOS, building_inventory, wind, force_rerun,
                      [exc |-> "none", files |-> files, paths |-> <<>>,
                       eff |-> [NoEffect EXCEPT !.reads = 1]])

-----------------------------------------------------------------------------
(* aggregate_county_losses, lines 642-719                                  *)

SummaryCols == <<"Year", "Building", "Contents", "Total">>

\* sum(...) of a column of amounts: missing when any amount is missing
SumCells(cells) ==
    IF \E i \in 1..Len(cells) : IsNA(cells[i]) THEN NaN
    ELSE Num(SumSeq([i \in 1..Len(cells) |-> cells[i].n]))

\* a variant that rounds a half up, which C13's formula tells from the code's
RoundHalfUp(q, r) == IF r < 500 THEN q ELSE q + 1

\* round(x, 0) of an amount in thousandths, to whole units: half goes to even
RoundHalfEven(q, r) ==
    IF r < 500 THEN q
    ELSE IF r > 500 THEN q + 1
    ELSE IF q % 2 = 0 THEN q ELSE q + 1

Round0(c) == IF IsNA(c) THEN NaN ELSE Num(RoundHalfEven(c.n \div 1000, c.n % 1000))

AddCells(a, b) == IF IsNA(a) \/ IsNA(b) THEN NaN ELSE Num(a.n + b.n)

\* line 670: the five-character county code of every row
CountyCodes(df_indiv) ==
    [i \in 1..Len(df_indiv.rows) |->
        Prefix(PyStr(Get(df_indiv.cols, df_indiv.rows[i], "countyFIPS")).s, 5)]

\* lines 675-678: one column of the rows of a county
CountyColumn(df_indiv, codes, c, name) ==
    [i \in 1..Cardinality({k \in 1..Len(codes) : codes[k] = c}) |->
        Get(df_indiv.cols,
            SelectSeq([k \in 1..Len(codes) |-> [u |-> codes[k], row |-> df_indiv.rows[k]]],
                      LAMBDA x : x.u = c)[i].row,
            name)]

\* lines 673-681: one row per distinct county code
CountyRows(df_indiv, codes, cf) ==
    [i \in 1..Len(cf) |->
        <<Str(cf[i]), SumCells(CountyColumn(df_indiv, codes, cf[i], "Building_Loss")),
          SumCells(CountyColumn(df_indiv, codes, cf[i], "Contents_Loss"))>>]

\* a variant that makes one group per record instead of one per distinct county
\* code, which C12's formula tells from the code's
CountyLossesPerRecord(df_indiv, codes) == CountyRows(df_indiv, codes, codes)

CountyLossesOf(df_indiv, codes) == CountyRows(df_indiv, codes, Unique(codes))

\* lines 669-683: losses_county, one row per distinct five-character county code
CountyLosses(df_indiv) == CountyLossesOf(df_indiv, CountyCodes(df_indiv))

\* lines 686-695: the row of total_losses
TotalsRow(scenario, total_bldg, total_cont) ==
    <<Str(scenario), total_bldg, total_cont, AddCells(total_bldg, total_cont)>>

\* lines 683-695.  Line 683 names three columns, which a frame built from an empty
\* list lacks.
TotalsOf(scenario, losses_county) ==
    IF Len(losses_county) = 0 THEN [exc |-> "ValueError", row |-> <<>>]
    ELSE [exc |-> "none",
          row |-> TotalsRow(scenario,
                      Round0(SumCells([i \in 1..Len(losses_county) |-> losses_county[i][2]])),
                      Round0(SumCells([i \in 1..Len(losses_county) |-> losses_county[i][3]])))]

\* lines 664-695 for one scenario: the row of total_losses, or the exception
ScenarioTotals(scenario, file) ==
    IF ~file.exists THEN [exc |-> "FileNotFoundError", row |-> <<>>]
    ELSE IF ~file.readable THEN [exc |-> "ParserError", row |-> <<>>]
    ELSE TotalsOf(scenario, CountyLosses(ReadCsv(file)))

\* a variant that keeps the row of the latest scenario only, which C29's formula
\* tells from the code's
CollectTotalsLatest(acc, r) ==
    [exc |-> r.exc, out |-> IF r.exc = "none" THEN <<r.row>> ELSE acc.out]

\* total_losses.append
CollectTotals(acc, r) ==
    [exc |-> r.exc, out |-> IF r.exc = "none" THEN Append(acc.out, r.row) ELSE acc.out]

RECURSIVE TotalLosses(_, _, _)
TotalLosses(paths, files, acc) ==
    IF paths = <<>> \/ acc.exc # "none" THEN acc
    ELSE TotalLosses(Tail(paths), files,
                     CollectTotals(acc, ScenarioTotals(Head(paths), files[Head(paths)])))

\* lines 698-703: the summary frame and its file
SummaryOf(r, out, e) ==
    IF r.exc # "none" THEN [exc |-> r.exc, summary |-> out, eff |-> e]
    ELSE IF Len(r.out) = 0 THEN [exc |-> "ValueError", summary |-> out, eff |-> e]
    ELSE [exc |-> "none", summary |-> ToCsv(SummaryCols, r.out),
          eff |-> [e EXCEPT !.writes = 1]]

SummaryResult(r, out) == SummaryOf(r, out, [NoEffect EXCEPT !.reads = Len(r.out)])

\* the whole function
aggregate_county_losses(loss_data_paths, files, out, force_rerun) ==
    IF OutputWanted(out, force_rerun)
    THEN [exc |-> "none", summary |-> out, eff |-> NoEffect]
    ELSE SummaryResult(TotalLosses(loss_data_paths, files, [exc |-> "none", out |-> <<>>]),
                       out)

-----------------------------------------------------------------------------
(* Inputs of a run                                                         *)

MaxBuildings == 2   \* buildings in the inventory handed to the characterization
MaxRows == 2        \* rows of a checkpoint file found on disk

\* every sequence without repetition of at most n members of S
NoRepeat(s) == \A i, j \in 1..Len(s) : i # j => s[i] # s[j]

RECURSIVE SeqsUpTo(_, _)
SeqsUpTo(S, n) ==
    IF n = 0 THEN {<<>>}
    ELSE LET shorter == SeqsUpTo(S, n - 1)
             longer == {Append(s, x) : s \in shorter, x \in S}
         IN shorter \cup {s \in longer : NoRepeat(s)}

\* Buildings of Orleans (22071, scheme LA1), Jefferson (22051, scheme LA2) and a
\* county without scheme (22103); the buildings the loop keeps have their
\* roughness on and beside every class boundary; building 114 is the one of a
\* concrete type.
Buildings ==
    {Bldg(101, "RES1", 220710001, "W", 30, 200000, 100000, Num(75)),
     Bldg(102, "RES1-1SNB", 220710002, "W", 31, 120000, 60000, Num(100)),
     Bldg(103, "RES1", 220710003, "H", 150, 50000, 20000, NaN),
     Bldg(104, "COM1", 220710004, "M", 151, 90000, 30000, Num(40)),
     Bldg(105, "RES1", 220510001, "W", 350, 150000, 70000, Num(160)),
     Bldg(106, "COM1", 220510002, "W", 200, 80000, 40000, Num(75)),
     Bldg(107, "RES1", 221030001, "W", 200, 110000, 50000, Num(75)),
     Bldg(108, "RES1", 220710005, "X", 200, 60000, 30000, Num(75)),
     Bldg(109, "RES1", 220510003, "M", 200, 70000, 30000, Num(125)),
     Bldg(110, "RES1", 220510004, "W", 351, 95000, 45000, Num(75)),
     Bldg(111, "RES1", 220710006, "W", 700, 85000, 35000, Num(75)),
     Bldg(112, "RES1-1SNB", 220510005, "W", 701, 75000, 25000, Num(75)),
     Bldg(113, "RES1", 220710007, "W", 0, 65000, 15000, Num(75)),
     Bldg(114, "RES1", 220710008, "C", 200, 55000, 25000, Num(75))}

\* the uniform draws a seeded stream may hold, in hundredths
Draws == {10, 65}

\* one row of a checkpoint file: an inventory row with its classification
Enriched(b, sbt, chars, wb, terrain) ==
    b \o <<Str(Prefix(PyStr(Get(SrcCols, b, "cbfips")).s, 5)), Str(sbt)>> \o chars
      \o <<wb, Num(terrain)>>

CheckpointRows ==
    {Enriched(Bldg(101, "RES1", 220710001, "W", 200, 200000, 100000, Num(75)),
              "WSF1", <<Str("rsgab"), Str("shtys"), Str("gdsup"), Str("gdwkd")>>, Num(12), 3),
     Enriched(Bldg(102, "RES1", 220510002, "W", 20, 100000, 50000, NaN),
              "WSF1", <<Str("rsgab"), NA, NA, NA>>, Num(12), 1),
     Enriched(Bldg(103, "COM1", 220710003, "W", 300, 80000, 40000, Num(100)),
              "WSF2", <<Str("rship"), NA, NA, NA>>, Num(21), 3),
     Enriched(Bldg(104, "RES1", 220710004, "W", 250, 90000, 30000, Num(40)),
              "WSF1", <<Str("rship"), Str("shtno"), Str("gdsup"), Str("gdwkd")>>, Num(13), 3),
     Enriched(Bldg(105, "RES1", 220510005, "H", 900, 50000, 20000, Num(75)),
              "MHPHUD", <<NA, Str("shtys"), NA, NA>>, NA, 5)}

CheckpointFiles ==
    {NoFile, BadFile} \cup
    {ToCsv(OutCols, rows) : rows \in SeqsUpTo(CheckpointRows, MaxRows)}

Wind(id, gust) == [fd_id |-> Num(id), Gust_Wind_Speed |-> gust]

\* joined wind tables of the three scenarios
WindCases ==
    {[ida_1971 |-> <<Wind(101, Num(75)), Wind(102, Num(40)), Wind(103, Num(100)),
                     Wind(104, Num(125)), Wind(105, Num(75))>>,
      ida_2021 |-> <<Wind(101, Num(50)), Wind(102, Num(160)), Wind(103, Num(150)),
                     Wind(104, Num(75)), Wind(105, Num(75))>>,
      ida_2071 |-> <<Wind(101, Num(125)), Wind(102, Num(100)), Wind(103, Num(45)),
                     Wind(104, Num(75)), Wind(105, Num(75))>>],
     [ida_1971 |-> <<Wind(101, Num(100)), Wind(103, Num(75))>>,
      ida_2021 |-> <<Wind(102, Num(75)), Wind(102, Num(100)), Wind(101, NaN)>>,
      ida_2071 |-> <<Wind(101, Num(155)), Wind(102, Num(50))>>],
     [ida_1971 |-> <<Wind(101, Num(75)), Wind(102, Num(75)), Wind(103, Num(75))>>,
      ida_2021 |-> <<>>,
      ida_2071 |-> <<Wind(101, Num(75))>>]}

\* a loss file of an earlier run
OldLosses ==
    ToCsv(LossCols,
          <<<<Num(101), Num(220710001), Num(12), Num(3), Num(100), Num(100000500),
              Num(20000500)>>,
            <<Num(102), Num(220510002), Num(12), Num(1), Num(50), Num(10000000),
              Num(2500000)>>>>)

OldSummary ==
    ToCsv(SummaryCols, <<<<Str("ida_1971"), Num(1), Num(1), Num(2)>>>>)

\* output files found on disk when the run starts
FileCases ==
    {[loss |-> [s \in {"ida_1971", "ida_2021", "ida_2071"} |-> NoFile], summary |-> NoFile],
     [loss |-> [s \in {"ida_1971", "ida_2021", "ida_2071"} |-> OldLosses], summary |-> OldSummary],
     [loss |-> [s \in {"ida_1971", "ida_2021", "ida_2071"} |->
                   IF s = "ida_2021" THEN OldLosses ELSE NoFile],
      summary |-> NoFile],
     [loss |-> [s \in {"ida_1971", "ida_2021", "ida_2071"} |-> OldLosses], summary |-> NoFile]}

-----------------------------------------------------------------------------
(* Step 3 of run_pipeline, src/main_pipeline.py lines 248-293              *)
(* A run with --building-inventory (pc = "given") reads neither nsi_data    *)
(* nor the checkpoint; it is taken with none of the two.                    *)

Init ==
    /\ nsi \in SeqsUpTo({b \in Buildings : Get(SrcCols, b, "fd_id").n <= 102}, MaxBuildings)
    /\ stream \in {[k \in 1..MaxBuildings |-> 10]}
    /\ force \in BOOLEAN
    /\ \E present \in {<<TRUE, TRUE>>, <<FALSE, TRUE>>, <<TRUE, FALSE>>} :
           mappingFile = present[1] /\ damageFile = present[2]
    /\ ckpt \in CheckpointFiles
    /\ joined \in WindCases
    /\ \E f \in FileCases : lossFile = f.loss /\ summary = f.summary
    /\ \/ pc = "start"
       \/ pc = "given" /\ nsi = <<>> /\ ckpt = NoFile
    /\ inv = NoFrame
    /\ lossPaths = <<>>
    /\ exc = "none"
    /\ cfips = <<>>
    /\ eff = NoEffect

\* lines 268-273
Characterize ==
    /\ pc = "start"
    /\ \E r \in {characterize_buildings(nsi, ckpt, force, mappingFile, stream)} :
          /\ exc' = r.exc
          /\ inv' = r.ret
          /\ ckpt' = r.ckpt
          /\ eff' = r.eff
          /\ pc' = IF r.exc = "none" THEN "characterized" ELSE "failed"
    /\ UNCHANGED <<nsi, stream, force, mappingFile, damageFile, joined, lossFile,
                   summary, lossPaths, cfips>>

\* lines 256-260: with --building-inventory the inventory is read from the file
\* named, whatever file that is; characterize_buildings is not called
UseInventory ==
    /\ pc = "given"
    /\ \E file \in CheckpointFiles :
          /\ exc' = IF ~file.exists THEN "FileNotFoundError"
                    ELSE IF ~file.readable THEN "ParserError" ELSE "none"
          /\ inv' = IF file.readable THEN ReadCsv(file) ELSE NoFrame
          /\ pc' = IF file.readable THEN "characterized" ELSE "failed"
    /\ eff' = NoEffect
    /\ UNCHANGED <<nsi, stream, force, mappingFile, damageFile, ckpt, joined, lossFile,
                   summary, lossPaths, cfips>>

\* lines 278-284
Calculate ==
    /\ pc = "characterized"
    /\ \E r \in {calculate_building_losses(inv, joined, damageFile, lossFile, force)} :
          /\ exc' = r.exc
          /\ lossFile' = r.files
          /\ lossPaths' = IF r.exc = "none" THEN r.paths ELSE <<>>
          /\ eff' = r.eff
          /\ pc' = IF r.exc = "none" THEN "calculated" ELSE "failed"
    /\ UNCHANGED <<nsi, stream, force, mappingFile, damageFile, ckpt, joined, summary,
                   inv, cfips>>

\* a variant that aggregates as soon as the inventory is there, without waiting for
\* the loss calculation, which C15's formula tells from the code's
AggregateEarly ==
    /\ pc \in {"characterized", "calculated"}
    /\ \E r \in {aggregate_county_losses(lossPaths, lossFile, summary, force)} :
          /\ exc' = r.exc
          /\ summary' = r.summary
          /\ eff' = r.eff
          /\ pc' = IF r.exc = "none" THEN "done" ELSE "failed"
    /\ UNCHANGED <<nsi, stream, force, mappingFile, damageFile, ckpt, joined, lossFile,
                   inv, lossPaths, cfips>>

\* lines 288-292
Aggregate ==
    /\ pc = "calculated"
    /\ \E r \in {aggregate_county_losses(lossPaths, lossFile, summary, force)} :
          /\ exc' = r.exc
          /\ summary' = r.summary
          /\ eff' = r.eff
          /\ pc' = IF r.exc = "none" THEN "done" ELSE "failed"
    /\ UNCHANGED <<nsi, stream, force, mappingFile, damageFile, ckpt, joined, lossFile,
                   inv, lossPaths, cfips>>

Next == Characterize \/ UseInventory \/ Calculate \/ Aggregate

Spec == Init /\ [][Next]_vars

\* main, lines 429-443 of src/main_pipeline.py: 0 when run_pipeline returns, 1 when
\* it raises; no code while the run goes on
ExitCode == IF pc = "done" THEN 0 ELSE IF pc = "failed" THEN 1 ELSE -1

-----------------------------------------------------------------------------
(* Step 3 with the process terminated from outside while a stage writes its *)
(* output.  to_csv (lines 363, 559, 703) opens the output path itself and   *)
(* writes the header and the rows to it in order, so a termination leaves   *)
(* the file with the rows written so far.  characterize_buildings raises    *)
(* before line 363 on every fresh build (see Cfips and FrameOf), so in a    *)
(* run of step 3 only the other two stages are terminated in a write.       *)

\* the file to_csv leaves when terminated after n rows
Truncated(file, n) == [file EXCEPT !.rows = SubSeq(@, 1, n)]

\* line 559 of the k-th scenario interrupted: the scenarios before it are done
TerminateCalculate ==
    /\ pc = "characterized"
    /\ damageFile
    /\ \E k \in 1..Len(SCENARIOS) :
          \E r \in {ScenarioLoop(SubSeq(SCENARIOS, 1, k), inv, joined, force,
                                 [exc |-> "none", files |-> lossFile, paths |-> <<>>,
                                  eff |-> [NoEffect EXCEPT !.reads = 1]])} :
              /\ r.exc = "none"
              /\ ~OutputWanted(lossFile[SCENARIOS[k]], force)
              /\ \E n \in 0..(Len(r.files[SCENARIOS[k]].rows) - 1) :
                     lossFile' = [r.files EXCEPT ![SCENARIOS[k]] = Truncated(@, n)]
              /\ eff' = r.eff
    /\ exc' = "terminated"
    /\ pc' = "killed"
    /\ UNCHANGED <<nsi, stream, force, mappingFile, damageFile, ckpt, joined, summary,
                   inv, lossPaths, cfips>>

\* line 703 interrupted
TerminateAggregate ==
    /\ pc = "calculated"
    /\ \E r \in {aggregate_county_losses(lossPaths, lossFile, summary, force)} :
          /\ r.exc = "none"
          /\ r.eff.writes = 1
          /\ \E n \in 0..(Len(r.summary.rows) - 1) : summary' = Truncated(r.summary, n)
          /\ eff' = r.eff
    /\ exc' = "terminated"
    /\ pc' = "killed"
    /\ UNCHANGED <<nsi, stream, force, mappingFile, damageFile, ckpt, joined, lossFile,
                   inv, lossPaths, cfips>>

NextKill == Next \/ TerminateCalculate \/ TerminateAggregate

SpecKill == Init /\ [][NextKill]_vars

-----------------------------------------------------------------------------
(* Lines 185-371 by themselves.  Line 182 raises for every inventory that   *)
(* has a county (see Cfips), so a run of the whole function enters the loop *)
(* with the empty list only.  SpecLoop takes the code from line 185 on as   *)
(* a unit of its own and feeds it the list of distinct county codes of the  *)
(* column line 181 builds, over inventories of up to MaxBuildings           *)
(* buildings and every stream of draws.                                     *)

InitLoop ==
    /\ nsi \in SeqsUpTo(Buildings, MaxBuildings)
    /\ stream \in [1..MaxBuildings -> Draws]
    /\ force = FALSE
    /\ mappingFile = TRUE
    /\ damageFile = TRUE
    /\ ckpt \in {NoFile, BadFile}
    /\ joined = [s \in {"ida_1971", "ida_2021", "ida_2071"} |-> <<>>]
    /\ lossFile = [s \in {"ida_1971", "ida_2021", "ida_2071"} |-> NoFile]
    /\ summary = NoFile
    /\ pc = "loop"
    /\ inv = NoFrame
    /\ lossPaths = <<>>
    /\ exc = "none"
    /\ cfips = Unique([i \in 1..Len(nsi) |->
                          Get(GroupCols, WithCountyFIPS(nsi)[i], "countyFIPS").s])
    /\ eff = [NoEffect EXCEPT !.reads = 5, !.warns = IF ckpt.exists THEN 1 ELSE 0]

\* lines 185-371
CharacterizeLoop ==
    /\ pc = "loop"
    /\ \E r \in {CharacterizeLoopResult(cfips, nsi, stream, ckpt, eff)} :
          /\ exc' = r.exc
          /\ inv' = r.ret
          /\ ckpt' = r.ckpt
          /\ eff' = r.eff
          /\ pc' = IF r.exc = "none" THEN "characterized" ELSE "failed"
    /\ UNCHANGED <<nsi, stream, force, mappingFile, damageFile, joined, lossFile,
                   summary, lossPaths, cfips>>

NextLoop == CharacterizeLoop

SpecLoop == InitLoop /\ [][NextLoop]_vars

-----------------------------------------------------------------------------
(* Lines 185-371 executed twice over the same inventory and catalog: the    *)
(* second execution finds the checkpoint the first one wrote and a          *)
(* generator that has made the first one's draws, and builds afresh.        *)

CharacterizeLoopAgain ==
    /\ pc = "characterized"
    /\ \E r \in {CharacterizeLoopResult(cfips, nsi, stream, ckpt, eff)} :
          /\ exc' = r.exc
          /\ inv' = r.ret
          /\ ckpt' = r.ckpt
          /\ eff' = r.eff
          /\ pc' = IF r.exc = "none" THEN "repeated" ELSE "failed"
    /\ UNCHANGED <<nsi, stream, force, mappingFile, damageFile, joined, lossFile,
                   summary, lossPaths, cfips>>

NextTwice == CharacterizeLoop \/ CharacterizeLoopAgain

SpecTwice == InitLoop /\ [][NextTwice]_vars

-----------------------------------------------------------------------------
(* Lines 185-371 followed by the loss calculation, once on the inventory    *)
(* the build returned and once on the inventory a later call reads back     *)
(* from the checkpoint the build wrote (lines 122-131).                     *)

InitRound ==
    /\ nsi \in SeqsUpTo(Buildings, MaxBuildings)
    /\ stream \in [1..MaxBuildings -> Draws]
    /\ force = FALSE
    /\ mappingFile = TRUE
    /\ damageFile = TRUE
    /\ ckpt = NoFile
    /\ joined \in WindCases
    /\ lossFile = [s \in {"ida_1971", "ida_2021", "ida_2071"} |-> NoFile]
    /\ summary = NoFile
    /\ pc = "loop"
    /\ inv = NoFrame
    /\ lossPaths = <<>>
    /\ exc = "none"
    /\ cfips = Unique([i \in 1..Len(nsi) |->
                          Get(GroupCols, WithCountyFIPS(nsi)[i], "countyFIPS").s])
    /\ eff = [NoEffect EXCEPT !.reads = 5]

\* lines 122-131 in a later call: the checkpoint is there and is read back
Reload ==
    /\ pc = "characterized"
    /\ CheckpointWanted(ckpt, force) /\ ckpt.readable
    /\ inv' = ReadCsv(ckpt)
    /\ pc' = "reloaded"
    /\ eff' = NoEffect
    /\ UNCHANGED <<nsi, stream, force, mappingFile, damageFile, ckpt, joined, lossFile,
                   summary, lossPaths, exc, cfips>>

\* lines 278-284 of src/main_pipeline.py with the inventory read back
CalculateReloaded ==
    /\ pc = "reloaded"
    /\ \E r \in {calculate_building_losses(inv, joined, damageFile, lossFile, force)} :
          /\ exc' = r.exc
          /\ lossFile' = r.files
          /\ lossPaths' = IF r.exc = "none" THEN r.paths ELSE <<>>
          /\ eff' = r.eff
          /\ pc' = IF r.exc = "none" THEN "calculated" ELSE "failed"
    /\ UNCHANGED <<nsi, stream, force, mappingFile, damageFile, ckpt, joined, summary,
                   inv, cfips>>

NextRound == CharacterizeLoop \/ Calculate \/ Reload \/ CalculateReloaded

SpecRound == InitRound /\ [][NextRound]_vars

-----------------------------------------------------------------------------
(* Properties                                                              *)

Scenarios == {SCENARIOS[i] : i \in 1..Len(SCENARIOS)}

\* the text a cell of a file stands for once read back
Reread(text) == IF text \in NaTokens THEN "" ELSE text

\* C1: when the checkpoint file exists, is readable and force_rerun is false,
\* characterize_buildings returns the deserialized checkpoint (same columns, same
\* rows, cell for cell) and skips the builder: no catalog table is read, no random
\* draw is made and the checkpoint file is not written.
C1_CheckpointHitSkipsBuilder ==
    [][(pc = "start" /\ ckpt.exists /\ ckpt.readable /\ ~force)
         => /\ pc' = "characterized"
            /\ exc' = "none"
            /\ inv'.cols = ckpt.cols
            /\ Len(inv'.rows) = Len(ckpt.rows)
            /\ \A i \in 1..Len(ckpt.rows) :
                   /\ Len(inv'.rows[i]) = Len(ckpt.rows[i])
                   /\ \A j \in 1..Len(ckpt.rows[i]) :
                          CsvText(inv'.rows[i][j]) = Reread(ckpt.rows[i][j])
            /\ ckpt' = ckpt
            /\ eff'.reads = 0
            /\ eff'.draws = 0
            /\ eff'.writes = 0]_vars

\* C1's case: a run that took a checkpoint of MaxRows buildings, with the catalog
\* file absent
C1_Witness ==
    /\ pc = "characterized"
    /\ ckpt.exists /\ ckpt.readable /\ ~force
    /\ ~mappingFile
    /\ Len(inv.rows) = MaxRows
    /\ eff = NoEffect

\* C2: when the checkpoint file is absent or force_rerun is true, and the inventory
\* and the catalog are there, characterize_buildings classifies the inventory,
\* writes the enriched inventory to the checkpoint path and returns that inventory.
C2_FreshBuildWritesAndReturns ==
    [][(pc = "start" /\ (~ckpt.exists \/ force) /\ mappingFile /\ Len(nsi) > 0)
         => /\ exc' = "none"
            /\ pc' = "characterized"
            /\ ckpt'.exists /\ ckpt'.readable
            /\ ckpt' = ToCsv(inv'.cols, inv'.rows)
            /\ eff'.writes = 1]_vars

\* C3: when the checkpoint file exists, cannot be deserialized and force_rerun is
\* false, characterize_buildings does not raise: it warns and goes on as if the
\* checkpoint were missing, classifying and overwriting the checkpoint.
C3_CorruptCheckpointRebuilt ==
    [][(pc = "start" /\ ckpt.exists /\ ~ckpt.readable /\ ~force /\ mappingFile
        /\ Len(nsi) > 0)
         => /\ exc' = "none"
            /\ eff'.warns >= 1
            /\ ckpt'.readable
            /\ ckpt' = ToCsv(inv'.cols, inv'.rows)]_vars

\* the class the thresholds 0.03, 0.15, 0.35, 0.7 give a roughness (in thousandths)
ClassIs(r, c) ==
    \/ c = 1 /\ r <= 30
    \/ c = 2 /\ 30 < r /\ r <= 150
    \/ c = 3 /\ 150 < r /\ r <= 350
    \/ c = 4 /\ 350 < r /\ r <= 700
    \/ c = 5 /\ 700 < r

\* the roughness of the inventory building an enriched row came from
RoughnessOf(row) ==
    Get(SrcCols,
        nsi[CHOOSE k \in 1..Len(nsi) :
                PyStr(Get(SrcCols, nsi[k], "fd_id")) = Get(inv.cols, row, "fd_id")],
        "nsi_val.SURFACEROU").n

TerrainClassOf(row) == TextVal(Get(inv.cols, row, "terrainID").s)

\* C4: the terrain class of every building of the enriched inventory is 1 for a
\* roughness r <= 0.03, 2 for 0.03 < r <= 0.15, 3 for 0.15 < r <= 0.35, 4 for
\* 0.35 < r <= 0.7 and 5 above; exactly one class fits each roughness, the class
\* lies within the bounds TERRAIN_THRESHOLDS gives it, and the class does not
\* decrease as the roughness grows.
C4_TerrainClass ==
    pc = "characterized" =>
        /\ \A i \in 1..Len(inv.rows) :
               /\ TerrainClassOf(inv.rows[i]) \in 1..5
               /\ ClassIs(RoughnessOf(inv.rows[i]), TerrainClassOf(inv.rows[i]))
               /\ \A c \in 1..5 :
                      ClassIs(RoughnessOf(inv.rows[i]), c)
                          => c = TerrainClassOf(inv.rows[i])
               /\ RoughnessOf(inv.rows[i])
                      <= TERRAIN_THRESHOLDS[TerrainClassOf(inv.rows[i])].hi
               /\ RoughnessOf(inv.rows[i])
                      >= TERRAIN_THRESHOLDS[TerrainClassOf(inv.rows[i])].lo
        /\ \A i, j \in 1..Len(inv.rows) :
               RoughnessOf(inv.rows[i]) <= RoughnessOf(inv.rows[j])
                   => TerrainClassOf(inv.rows[i]) <= TerrainClassOf(inv.rows[j])

\* C4's case: two buildings on the two sides of the first boundary, classified
C4_Witness ==
    /\ pc = "characterized"
    /\ \E i, j \in 1..Len(inv.rows) :
           /\ RoughnessOf(inv.rows[i]) = 30 /\ TerrainClassOf(inv.rows[i]) = 1
           /\ RoughnessOf(inv.rows[j]) = 31 /\ TerrainClassOf(inv.rows[j]) = 2

\* a scenario whose loss file the Calculate step computes and writes
Produced(s) ==
    /\ pc = "characterized"
    /\ \/ pc' = "calculated" /\ ~OutputWanted(lossFile[s], force)
       \/ lossFile'[s] # lossFile[s]

\* the building has a wind-speed assignment in the scenario's joined data
HasWind(row, s) ==
    \E k \in 1..Len(joined[s]) : joined[s][k].fd_id = Get(inv.cols, row, "fd_id")

\* the catalog holds a curve of the damage class for the building's wind building
\* type and terrain
HasCurve(row, d) ==
    \E k \in 1..Len(huDamLossFunc) :
        /\ Num(huDamLossFunc[k].wbID) = Get(inv.cols, row, "wbID")
        /\ Num(huDamLossFunc[k].TERRAINID) = Get(inv.cols, row, "terrainID")
        /\ huDamLossFunc[k].DamLossDescID = d

Survivors(s) ==
    SelectSeq(inv.rows,
              LAMBDA row : /\ HasWind(row, s)
                           /\ HasCurve(row, BUILDING_DAMAGE_ID)
                           /\ HasCurve(row, CONTENTS_DAMAGE_ID))

\* C5: a loss file calculate_building_losses writes holds exactly one record for
\* each building of the enriched inventory that has a wind-speed assignment in the
\* scenario and a curve of both damage classes, in inventory order, and no other
\* record.
C5_OneRecordPerSurvivor ==
    [][\A s \in Scenarios :
           Produced(s) =>
               [i \in 1..Len(lossFile'[s].rows) |-> lossFile'[s].rows[i][1]]
                   = [i \in 1..Len(Survivors(s)) |->
                         CsvText(Get(inv.cols, Survivors(s)[i], "fd_id"))]]_vars

\* C5's case: a loss file written for an inventory of two buildings, one of which
\* was skipped
C5_Witness ==
    /\ pc = "calculated"
    /\ eff.writes > 0
    /\ Len(inv.rows) = 2
    /\ \E s \in Scenarios : lossFile[s].exists /\ Len(lossFile[s].rows) = 1

\* r (per mille) is the piecewise-linear reading of the curve (xp, fp) at x
IsBlend(x, xp, fp, r) ==
    \/ x <= xp[1] /\ r = fp[1]
    \/ x >= xp[Len(xp)] /\ r = fp[Len(xp)]
    \/ \E j \in 1..(Len(xp) - 1) :
           /\ xp[j] <= x /\ x <= xp[j + 1]
           /\ r * (xp[j + 1] - xp[j]) = fp[j] * (xp[j + 1] - x) + fp[j + 1] * (x - xp[j])

\* the inventory row a loss record belongs to
RowOf(rec) ==
    inv.rows[CHOOSE k \in 1..Len(inv.rows) :
                 CsvText(Get(inv.cols, inv.rows[k], "fd_id")) = rec[1]]

\* the wind speed assigned to the record's building in the scenario
WindOf(rec, s) ==
    joined[s][CHOOSE k \in 1..Len(joined[s]) :
                  /\ CsvText(joined[s][k].fd_id) = rec[1]
                  /\ \A m \in 1..(k - 1) : CsvText(joined[s][m].fd_id) # rec[1]]
        .Gust_Wind_Speed

\* the ratios of the curve of damage class d for the record's building
CurveOf(rec, d) ==
    huDamLossFunc[CHOOSE k \in 1..Len(huDamLossFunc) :
                      /\ Num(huDamLossFunc[k].wbID) = Get(inv.cols, RowOf(rec), "wbID")
                      /\ Num(huDamLossFunc[k].TERRAINID)
                             = Get(inv.cols, RowOf(rec), "terrainID")
                      /\ huDamLossFunc[k].DamLossDescID = d].vals

\* the written amount is the value times a ratio that reads the curve at x
RatioReadsCurve(amount, value, x, fp) ==
    /\ IsDigitText(amount)
    /\ TextVal(amount) = (TextVal(amount) \div value) * value
    /\ IsBlend(x, <<50, 100, 150>>, fp, TextVal(amount) \div value)

\* C6: the loss ratio of every record written is the piecewise-linear
\* interpolation of its damage curve at the assigned wind speed: the stored ratio
\* at a breakpoint, the linear blend between two adjacent breakpoints, the first
\* ratio below the first breakpoint and the last ratio above the last one.
C6_PiecewiseLinearRatio ==
    [][\A s \in Scenarios :
           Produced(s) =>
               \A i \in 1..Len(lossFile'[s].rows) :
                   IF IsNA(WindOf(lossFile'[s].rows[i], s))
                   THEN lossFile'[s].rows[i][6] = ""
                   ELSE /\ RatioReadsCurve(
                               lossFile'[s].rows[i][6],
                               Get(inv.cols, RowOf(lossFile'[s].rows[i]), "val_struct").n,
                               WindOf(lossFile'[s].rows[i], s).n,
                               CurveOf(lossFile'[s].rows[i], BUILDING_DAMAGE_ID))
                        /\ RatioReadsCurve(
                               lossFile'[s].rows[i][7],
                               Get(inv.cols, RowOf(lossFile'[s].rows[i]), "val_cont").n,
                               WindOf(lossFile'[s].rows[i], s).n,
                               CurveOf(lossFile'[s].rows[i], CONTENTS_DAMAGE_ID))]_vars

\* C6's case: wind building type 12 on terrain 3, curve {50: 0, 100: 0.5, 150: 1},
\* wind speed 75 and structure value 200000: ratio 0.25, loss 50000 (in thousandths)
C6_Witness ==
    /\ pc = "calculated"
    /\ eff.writes > 0
    /\ \E s \in Scenarios :
           \E i \in 1..Len(lossFile[s].rows) :
               /\ lossFile[s].rows[i][3] = "12"
               /\ lossFile[s].rows[i][4] = "3"
               /\ lossFile[s].rows[i][5] = "75"
               /\ lossFile[s].rows[i][6] = "50000000"

Mapped(c) ==
    \E k \in 1..Len(huMappingSchemesByCountyFips) :
        ToString(huMappingSchemesByCountyFips[k].CountyFIPS) = c

Registered(sbt) ==
    \E k \in 1..Len(huListOfWindBldgTypes) : huListOfWindBldgTypes[k].sbtName = sbt

C10_SkipsNeverRaise ==
    [][(/\ pc = "characterized"
        /\ damageFile
        /\ Len(inv.rows) > 0
        /\ \A i \in 1..Len(inv.rows) : ~IsNA(Get(inv.cols, inv.rows[i], "wbID")))
         => /\ exc' = "none"
            /\ pc' = "calculated"
            /\ \A s \in Scenarios : lossFile'[s].exists]_vars

\* the scenarios whose loss file is not on disk
Missing == {s \in Scenarios : ~lossFile[s].exists}

Summed ==
    /\ pc = "calculated"
    /\ pc' = "done"
    /\ ~(summary.exists /\ ~force)

\* the records of a scenario's loss file and one of their columns
LossRecords(s) == ReadCsv(lossFile[s])

Column(df, name) == [k \in 1..Len(df.rows) |-> Get(df.cols, df.rows[k], name)]

\* the county subtotals of a scenario: column 2 structural, column 3 contents
Subtotals(s, j) ==
    [k \in 1..Len(CountyLosses(LossRecords(s))) |-> CountyLosses(LossRecords(s))[k][j]]

\* the county groups a record falls in
GroupsOf(s, k) ==
    {c \in 1..Len(CountyLosses(LossRecords(s))) :
        CountyLosses(LossRecords(s))[c][1].s
            = Prefix(PyStr(Get(LossCols, LossRecords(s).rows[k], "countyFIPS")).s, 5)}

\* C12: for every scenario summed, the structural losses of all records add up to
\* the sum of the county subtotals, and the structural total of the summary is that
\* sum rounded; the same for the contents losses; every record falls in exactly one
\* county group.
C12_AggregationSums ==
    [][Summed =>
         \A i \in 1..Len(lossPaths) :
             /\ SumCells(Column(LossRecords(lossPaths[i]), "Building_Loss"))
                    = SumCells(Subtotals(lossPaths[i], 2))
             /\ summary'.rows[i][2]
                    = CsvText(Round0(SumCells(Column(LossRecords(lossPaths[i]),
                                                     "Building_Loss"))))
             /\ SumCells(Column(LossRecords(lossPaths[i]), "Contents_Loss"))
                    = SumCells(Subtotals(lossPaths[i], 3))
             /\ summary'.rows[i][3]
                    = CsvText(Round0(SumCells(Column(LossRecords(lossPaths[i]),
                                                     "Contents_Loss"))))
             /\ \A k \in 1..Len(lossFile[lossPaths[i]].rows) :
                    Cardinality(GroupsOf(lossPaths[i], k)) = 1]_vars

\* C12's case: a summary over a scenario with two records of one county and a
\* scenario with records of two counties
C12_Witness ==
    /\ pc = "done"
    /\ eff.writes = 1
    /\ \E s \in Scenarios :
           /\ Len(lossFile[s].rows) = 2
           /\ Len(Subtotals(s, 2)) = 1
           /\ ~IsNA(Subtotals(s, 2)[1])
    /\ \E s \in Scenarios :
           /\ Len(lossFile[s].rows) = 2
           /\ Len(Subtotals(s, 2)) = 2

\* the sum of one amount column over all records of a scenario, in thousandths
SumOf(s, name) == SumCells(Column(LossRecords(s), name))

Dist(a, b) == IF a >= b THEN a - b ELSE b - a

\* w whole units is the amount t (in thousandths) rounded to the nearest whole
\* unit, a half going to the even neighbour
IsRounded(t, w) ==
    /\ Dist(t, 1000 * w) <= 500
    /\ Dist(t, 1000 * w) = 500 => w % 2 = 0

\* the text is that of a whole number which is the amount rounded
RoundedText(text, amount) ==
    IF IsNA(amount) THEN text = ""
    ELSE IsDigitText(text) /\ IsRounded(amount.n, TextVal(text))

\* C13 as the code has it: in every summary row the structural total is the sum of
\* the structural losses rounded to the nearest whole unit (half to even), the
\* contents total likewise, and the combined total is the sum of these two rounded
\* totals; the three are whole numbers, or missing when an amount summed is missing.
C13_SumOfRoundedTotals ==
    [][Summed =>
         \A i \in 1..Len(lossPaths) :
             /\ summary'.rows[i][1] = lossPaths[i]
             /\ RoundedText(summary'.rows[i][2], SumOf(lossPaths[i], "Building_Loss"))
             /\ RoundedText(summary'.rows[i][3], SumOf(lossPaths[i], "Contents_Loss"))
             /\ IF summary'.rows[i][2] = "" \/ summary'.rows[i][3] = ""
                THEN summary'.rows[i][4] = ""
                ELSE /\ IsDigitText(summary'.rows[i][4])
                     /\ TextVal(summary'.rows[i][4])
                            = TextVal(summary'.rows[i][2]) + TextVal(summary'.rows[i][3])]_vars

\* C13's case: structural losses of 110000.5 and contents losses of 22500.5 summed:
\* totals 110000, 22500 and 132500
C13_Witness ==
    /\ pc = "done"
    /\ eff.writes = 1
    /\ \E i \in 1..Len(summary.rows) :
           /\ SumOf(summary.rows[i][1], "Building_Loss") = Num(110000500)
           /\ SumOf(summary.rows[i][1], "Contents_Loss") = Num(22500500)
           /\ summary.rows[i][2] = "110000"
           /\ summary.rows[i][3] = "22500"
           /\ summary.rows[i][4] = "132500"

\* C13: in every summary row, computed from amounts of which none is missing, the
\* combined total is the structural losses plus the contents losses, rounded once
\* to the nearest whole unit, and the three totals are whole numbers.
C13_CombinedRoundedOnce ==
    [][(/\ Summed
        /\ \A i \in 1..Len(lossPaths) :
               /\ ~IsNA(SumOf(lossPaths[i], "Building_Loss"))
               /\ ~IsNA(SumOf(lossPaths[i], "Contents_Loss")))
         => \A i \in 1..Len(lossPaths) :
                /\ IsDigitText(summary'.rows[i][2])
                /\ IsDigitText(summary'.rows[i][3])
                /\ IsDigitText(summary'.rows[i][4])
                /\ Dist(SumOf(lossPaths[i], "Building_Loss").n
                            + SumOf(lossPaths[i], "Contents_Loss").n,
                        1000 * TextVal(summary'.rows[i][4])) <= 500]_vars

C15_StageOrder ==
    [][/\ pc' = "characterized" => (pc \in {"start", "given"} /\ inv' # NoFrame)
       /\ pc' = "calculated" => (pc = "characterized" /\ inv # NoFrame)
       /\ pc' = "done" =>
              /\ pc = "calculated"
              /\ lossPaths = SCENARIOS
              /\ \A s \in Scenarios : lossFile[s].exists
       /\ ckpt' # ckpt => pc = "start"
       /\ lossFile' # lossFile => pc = "characterized"
       /\ summary' # summary => pc = "calculated"
       /\ pc = "given" => (eff' = NoEffect /\ ckpt' = ckpt)
       /\ (pc = "start" /\ ckpt.exists /\ ckpt.readable /\ ~force) => ckpt' = ckpt
       /\ \A s \in Scenarios : (lossFile[s].exists /\ ~force) => lossFile'[s] = lossFile[s]
       /\ (summary.exists /\ ~force) => summary' = summary]_vars

\* C15's case: a run that went through the three stages from the checkpoint on
\* disk, computed the loss files and wrote the summary
C15_Witness ==
    /\ pc = "done"
    /\ ckpt.exists
    /\ Len(inv.rows) > 0
    /\ lossPaths = SCENARIOS
    /\ \A s \in Scenarios : lossFile[s].exists /\ lossFile[s] # OldLosses
    /\ Len(summary.rows) = 3
    /\ eff.writes = 1

\* C15: Calculate starts only after Characterize has returned an inventory: the
\* inventory Calculate starts with is one characterize_buildings returned.
C15_InventoryFromCharacterize ==
    [][pc' = "characterized" => pc = "start"]_vars

\* the stage ended without completing: it raised or the process was terminated
Aborted == pc' \in {"failed", "killed"}

\* C16: after a stage aborts or is terminated mid-way, with or without
\* force_rerun, every output file of the stage that the next run's existence check
\* (without force) accepts is a completed result: a file the stage left as it
\* found it, or one it wrote in full.
C16_NoCheckpointAfterAbort ==
    [][/\ (pc = "start" /\ Aborted /\ CheckpointWanted(ckpt', FALSE) /\ ckpt'.readable)
            => ckpt' = ckpt
       /\ (pc = "characterized" /\ Aborted) =>
            \A s \in Scenarios :
                OutputWanted(lossFile'[s], FALSE) =>
                    \/ lossFile'[s] = lossFile[s]
                    \/ /\ ScenarioLosses(inv, joined[s]).exc = "none"
                       /\ lossFile'[s] = ToCsv(LossCols, ScenarioLosses(inv, joined[s]).out)
       /\ (pc = "calculated" /\ Aborted /\ OutputWanted(summary', FALSE))
            => summary' = summary]_vars

\* the scheme of the building's county, lines 207-213
SchemeFor(b) == SchemeOf(Prefix(PyStr(Get(SrcCols, b, "cbfips")).s, 5))

\* the scheme's rows for the building's base occupancy, lines 215-226
OccRowsFor(b) ==
    SelectSeq(huGbsOccMapping,
              LAMBDA r : /\ r.huOccMapSchemeName = SchemeFor(b).name
                         /\ r.Occupancy = BaseOccupancy(Get(SrcCols, b, "occtype").s))

\* a subtype draw is made for the building: lines 211, 227, 249
SubtypeDrawn(b) ==
    /\ SchemeFor(b).found
    /\ Len(OccRowsFor(b)) > 0
    /\ KnownBldgType(Get(SrcCols, b, "bldgtype").s)

\* the percentages handed to the subtype draw, line 253
SubtypeVector(b) == FlattenPct(OccRowsFor(b), Get(SrcCols, b, "bldgtype").s)

\* the distribution rows of a subtype in a scheme, lines 264-267
DistRows(scheme, sbt) ==
    SelectSeq(huBldgMapping, LAMBDA r : r.huBldgSchemeName = scheme /\ r.sbtName = sbt)

AggregateWithout(s) ==
    aggregate_county_losses(lossPaths, [lossFile EXCEPT ![s] = NoFile], summary, force)

BeforeDash(occ) ==
    Prefix(occ, CHOOSE n \in 0..Len(occ) :
                    /\ \A i \in 1..n : SubSeq(occ, i, i) # "-"
                    /\ n = Len(occ) \/ SubSeq(occ, n + 1, n + 1) = "-")

\* the building with its occupancy code cut to the base code
WithBaseCode(b) ==
    [b EXCEPT ![ColIdx(SrcCols, "occtype")] = Str(BeforeDash(@.s))]

\* the county of the building has a scheme and the scheme has no row for the
\* building's base occupancy code
NoOccupancyRow(b) ==
    /\ SchemeFor(b).found
    /\ \A i \in 1..Len(huGbsOccMapping) :
           \/ huGbsOccMapping[i].huOccMapSchemeName # SchemeFor(b).name
           \/ huGbsOccMapping[i].Occupancy # BeforeDash(Get(SrcCols, b, "occtype").s)

\* the classification of one building by itself
Alone(b) ==
    BuildingList(<<Prefix(PyStr(Get(SrcCols, b, "cbfips")).s, 5)>>, <<b>>, stream)

\* two lists of enriched rows agree in every column but the occupancy code
SameButOccupancy(r1, r2) ==
    /\ Len(r1) = Len(r2)
    /\ \A i \in 1..Len(r1) :
           /\ Len(r1[i]) = Len(r2[i])
           /\ \A j \in 1..Len(r1[i]) :
                  j # ColIdx(SrcCols, "occtype") => r1[i][j] = r2[i][j]

\* the buildings whose occupancy has a row, or whose county has no scheme
WithOccupancyRow == SelectSeq(nsi, LAMBDA b : ~NoOccupancyRow(b))

BldgTypes == {"W", "M", "C", "S", "H"}

\* the positions (from 1) of the subtype columns of a building-type code: columns
\* 0-4, 5-18, 19-24, 25-33 and 34 onward
ColumnsOf(t) ==
    IF t = "W" THEN 1..5
    ELSE IF t = "M" THEN 6..19
    ELSE IF t = "C" THEN 20..25
    ELSE IF t = "S" THEN 26..34
    ELSE 35..Len(SbtCols)

\* the members of a sequence
Members(s) == {s[i] : i \in 1..Len(s)}

\* the percentage the scheme of the row's county gives the subtype of the row in
\* the row of the building's base occupancy code
PctOfSubtype(row) ==
    SelectSeq(huGbsOccMapping,
              LAMBDA r : /\ r.huOccMapSchemeName
                              = SchemeOf(Get(inv.cols, row, "countyFIPS").s).name
                         /\ r.Occupancy = BeforeDash(Get(inv.cols, row, "occtype").s))[1]
        .pct[ColIdx(SbtCols, Get(inv.cols, row, "sbtName").s)]

\* C20: the names the code slices for a building-type code are those of columns
\* 0-4 (W), 5-18 (M), 19-24 (C), 25-33 (S) and 34 onward (H), which are the ranges
\* of BUILDING_SUBTYPE_RANGES and pairwise disjoint; and the subtype of every
\* building of the enriched inventory is a name of the range of its building-type
\* code with a percentage above 0 in the scheme's row for its occupancy.
C20_SubtypeInRange ==
    /\ \A t \in BldgTypes :
           /\ Members(SubtypeSlice(SbtCols, t)) = {SbtCols[i] : i \in ColumnsOf(t)}
           /\ SubtypeSlice(SbtCols, t)
                  = PySlice(SbtCols, BUILDING_SUBTYPE_RANGES[t][1],
                            BUILDING_SUBTYPE_RANGES[t][2])
           /\ \A t2 \in BldgTypes \ {t} :
                  /\ ColumnsOf(t) \cap ColumnsOf(t2) = {}
                  /\ Members(SubtypeSlice(SbtCols, t))
                         \cap Members(SubtypeSlice(SbtCols, t2)) = {}
    /\ pc = "characterized" =>
           \A i \in 1..Len(inv.rows) :
               /\ Get(inv.cols, inv.rows[i], "bldgtype").s \in BldgTypes
               /\ Get(inv.cols, inv.rows[i], "sbtName").s
                      \in {SbtCols[j] : j \in ColumnsOf(Get(inv.cols, inv.rows[i], "bldgtype").s)}
               /\ PctOfSubtype(inv.rows[i]) > 0

\* C20's case: a masonry building that drew MSF2 (50 percent) beside a wood
\* building that drew a wood subtype
C20_Witness ==
    /\ pc = "characterized"
    /\ \E i, j \in 1..Len(inv.rows) :
           /\ Get(inv.cols, inv.rows[i], "bldgtype").s = "M"
           /\ Get(inv.cols, inv.rows[i], "sbtName").s = "MSF2"
           /\ Get(inv.cols, inv.rows[i], "occtype").s = "COM1"
           /\ Get(inv.cols, inv.rows[j], "bldgtype").s = "W"
           /\ Get(inv.cols, inv.rows[j], "sbtName").s \in {"WSF1", "WSF2"}

\* the characteristic ids and the value labels the catalog lists for a type
TypeIds(charType) ==
    {huListofBldgChar[i].BldgCharID :
        i \in {k \in 1..Len(huListofBldgChar) : huListofBldgChar[k].CharType = charType}}

TypeLabels(charType) ==
    {huListofBldgChar[i].BldgChar :
        i \in {k \in 1..Len(huListofBldgChar) : huListofBldgChar[k].CharType = charType}}

\* the scheme defines for the subtype at least one characteristic id of the type
Defines(scheme, sbt, charType) ==
    \E i \in 1..Len(huBldgMapping) :
        /\ huBldgMapping[i].huBldgSchemeName = scheme
        /\ huBldgMapping[i].sbtName = sbt
        /\ huBldgMapping[i].BLDGCHARID \in TypeIds(charType)

\* the (scheme, subtype) pairs that have distribution rows
SchemeSubtypes ==
    {<<huBldgMapping[i].huBldgSchemeName, huBldgMapping[i].sbtName>> :
        i \in 1..Len(huBldgMapping)}

\* the cell of a characteristic type in a row of the enriched inventory
CharCell(row, charType) == Get(inv.cols, row, charType)

\* C21: for every subtype group of a scheme, a characteristic type is given a
\* value if and only if the scheme defines for the subtype at least one
\* characteristic id of that type; the values given are value labels the catalog
\* lists for the type, and the other types are left missing (pd.NA).  In the
\* enriched inventory the cell of a type that applies holds such a label and the
\* cell of every other type holds the text of the missing value, which the
\* checkpoint reader takes for missing.
C21_ProfilePopulatedIffDefined ==
    /\ pc = "loop" =>
           \A g \in SchemeSubtypes :
               \A p \in {CharPasses(DistRows(g[1], g[2]), MaxBuildings, stream)} :
                   /\ \A c \in 1..Len(charTypes) :
                          p[c].check <=> Defines(g[1], g[2], charTypes[c])
                   /\ (\A c \in 1..Len(charTypes) : p[c].exc = "none") =>
                          \A q \in {WithChars([j \in 1..MaxBuildings |-> <<>>], p)} :
                              \A k \in 1..MaxBuildings, c \in 1..Len(charTypes) :
                                  q[k][c] \in IF Defines(g[1], g[2], charTypes[c])
                                              THEN {Str(l) : l \in TypeLabels(charTypes[c])}
                                              ELSE {NA}
    /\ pc = "characterized" =>
           \A i \in 1..Len(inv.rows) :
               \A c \in 1..Len(charTypes) :
                   IF Defines(SchemeOf(Get(inv.cols, inv.rows[i], "countyFIPS").s).name,
                              Get(inv.cols, inv.rows[i], "sbtName").s, charTypes[c])
                   THEN CharCell(inv.rows[i], charTypes[c]).s \in TypeLabels(charTypes[c])
                   ELSE /\ CharCell(inv.rows[i], charTypes[c]) = PyStr(NA)
                        /\ CharCell(ReadCsv(ckpt).rows[i], charTypes[c]) = NaN

\* C21's case: a building that drew WSF2 in scheme LA1, which defines roof shapes
\* only: its roof shape is set and its three other characteristics are not
C21_Witness ==
    /\ pc = "characterized"
    /\ \E i \in 1..Len(inv.rows) :
           /\ Get(inv.cols, inv.rows[i], "sbtName").s = "WSF2"
           /\ CharCell(inv.rows[i], "Roof Shape").s \in {"rship", "rsgab"}
           /\ CharCell(inv.rows[i], "Shutters") = PyStr(NA)
           /\ CharCell(inv.rows[i], "Garage, Houses with Shutters") = PyStr(NA)
           /\ CharCell(inv.rows[i], "Garage, Houses w/out Shutters") = PyStr(NA)

\* the characteristic id of a value label of the catalog
LabelId(label) ==
    huListofBldgChar[CHOOSE i \in 1..Len(huListofBldgChar) :
                         huListofBldgChar[i].BldgChar = label].BldgCharID

\* the percentage the scheme defines for the subtype and the characteristic id,
\* -1 when it defines none
PercentOf(scheme, sbt, id) ==
    IF \E i \in 1..Len(huBldgMapping) :
           /\ huBldgMapping[i].huBldgSchemeName = scheme
           /\ huBldgMapping[i].sbtName = sbt
           /\ huBldgMapping[i].BLDGCHARID = id
    THEN huBldgMapping[CHOOSE i \in 1..Len(huBldgMapping) :
                           /\ huBldgMapping[i].huBldgSchemeName = scheme
                           /\ huBldgMapping[i].sbtName = sbt
                           /\ huBldgMapping[i].BLDGCHARID = id].PercentDist
    ELSE -1

\* the scheme and the subtype of a row of the enriched inventory
SchemeOfRow(row) == SchemeOf(Get(inv.cols, row, "countyFIPS").s).name

SubtypeOfRow(row) == Get(inv.cols, row, "sbtName").s

GarageWith == "Garage, Houses with Shutters"

GarageWithout == "Garage, Houses w/out Shutters"

\* the candidates registered for a subtype, in catalog order
CandidatesOf(sbt) == SelectSeq(huListOfWindBldgTypes, LAMBDA r : r.sbtName = sbt)

\* the characteristic types that apply to the row's subtype, in catalog order,
\* without the garage type named
AppliedBut(row, garage) ==
    SelectSeq(charTypes,
              LAMBDA t : /\ Defines(SchemeOfRow(row), SubtypeOfRow(row), t)
                         /\ t # garage)

\* every list of characteristic types in catalog order
TypeLists == {SelectSeq(charTypes, LAMBDA t : t \in S) : S \in SUBSET Members(charTypes)}

\* C23: the exclusion comes before any narrowing.  Of a list of applicable types
\* that has Shutters, the types used for narrowing are all but "garage without
\* shutters" when the sampled Shutters value is the one for shutters present, and
\* all but "garage with shutters" otherwise, so never both garage types; a list
\* without Shutters is used as it is.  The wind building type of every building of
\* the enriched inventory to which Shutters applies is the one the narrowing by
\* these types gives, whatever value the building has for the excluded type.
C23_ShutterExclusionFirst ==
    /\ \A d \in TypeLists :
           \A v \in {Str("shtys"), Str("shtno")} :
               IF "Shutters" \in Members(d)
               THEN /\ ShutterRule(d, v)
                           = SelectSeq(d, LAMBDA t : t # (IF v = Str("shtys")
                                                          THEN GarageWithout ELSE GarageWith))
                    /\ ~({GarageWith, GarageWithout} \subseteq Members(ShutterRule(d, v)))
               ELSE ShutterRule(d, v) = d
    /\ pc = "characterized" =>
           \A i \in 1..Len(inv.rows) :
               Defines(SchemeOfRow(inv.rows[i]), SubtypeOfRow(inv.rows[i]), "Shutters") =>
                   Get(inv.cols, inv.rows[i], "wbID")
                       = FirstWbID(Narrow(CandidatesOf(SubtypeOfRow(inv.rows[i])),
                                          AppliedBut(inv.rows[i],
                                                     IF CharCell(inv.rows[i], "Shutters").s = "shtys"
                                                     THEN GarageWithout ELSE GarageWith),
                                          inv.rows[i]))

\* C23's case: a building without shutters whose sampled "garage with shutters"
\* value occurs in the description of a candidate of its roof shape and shutter
\* value (15), and whose "garage without shutters" value occurs in none: the first
\* candidate left by roof shape and shutters (13) is taken, not candidate 15
C23_Witness ==
    /\ pc = "characterized"
    /\ \E i \in 1..Len(inv.rows) :
           /\ CharCell(inv.rows[i], "Roof Shape").s = "rship"
           /\ CharCell(inv.rows[i], "Shutters").s = "shtno"
           /\ CharCell(inv.rows[i], GarageWith).s = "gdsup"
           /\ CharCell(inv.rows[i], GarageWithout).s = "gdstd"
           /\ Get(inv.cols, inv.rows[i], "wbID") = Num(13)

\* the characteristic types the narrowing of a row goes through, in catalog order
UsedTypes(row) ==
    ShutterRule(SelectSeq(charTypes,
                          LAMBDA t : Defines(SchemeOfRow(row), SubtypeOfRow(row), t)),
                CharCell(row, "Shutters"))

\* the candidate set of a row after the first j types
After(row, j) ==
    Narrow(CandidatesOf(SubtypeOfRow(row)), SubSeq(UsedTypes(row), 1, j), row)

\* the candidates of a list whose description contains the text
Matching(cands, text) ==
    SelectSeq(cands,
              LAMBDA r : \E a \in 1..Len(r.charDescription) :
                             \E b \in a..Len(r.charDescription) :
                                 SubSeq(r.charDescription, a, b) = text)

\* s is t with some members left out
IsSubSeq(s, t) == \E S \in SUBSET (1..Len(t)) : s = SelectSeq(t, LAMBDA x : x \in {t[i] : i \in S})

\* C24: for every building of the enriched inventory, step j of the resolution
\* takes the candidates left by step j - 1 whose description contains the
\* building's value of the j-th type used, or all of them when none does; after
\* every step the candidates are candidates registered for the sampled subtype, in
\* catalog order, and there is one at least whenever one is registered; the wind
\* building type assigned comes from the candidates left by the last step.
C24_NarrowingKeepsCandidates ==
    pc = "characterized" =>
        \A i \in 1..Len(inv.rows) :
            /\ After(inv.rows[i], 0) = CandidatesOf(SubtypeOfRow(inv.rows[i]))
            /\ \A j \in 1..Len(UsedTypes(inv.rows[i])) :
                   \A prev \in {After(inv.rows[i], j - 1)} :
                       \A cur \in {After(inv.rows[i], j)} :
                           \A hit \in {Matching(prev,
                                           CharCell(inv.rows[i], UsedTypes(inv.rows[i])[j]).s)} :
                               /\ cur = IF Len(hit) > 0 THEN hit ELSE prev
                               /\ IsSubSeq(cur, CandidatesOf(SubtypeOfRow(inv.rows[i])))
                               /\ Len(CandidatesOf(SubtypeOfRow(inv.rows[i]))) > 0
                                      => Len(cur) > 0
            /\ \A last \in {After(inv.rows[i], Len(UsedTypes(inv.rows[i])))} :
                   IF Len(last) = 0
                   THEN Get(inv.cols, inv.rows[i], "wbID") = NA
                   ELSE \E k \in 1..Len(last) :
                            Get(inv.cols, inv.rows[i], "wbID") = Num(last[k].wbID)

\* C24's case: a building whose candidates one step narrows and another step,
\* matching none of those left, keeps as they are
C24_Witness ==
    /\ pc = "characterized"
    /\ \E i \in 1..Len(inv.rows) :
           \E j1, j2 \in 1..Len(UsedTypes(inv.rows[i])) :
               /\ j1 < j2
               /\ Len(After(inv.rows[i], j1)) < Len(After(inv.rows[i], j1 - 1))
               /\ Matching(After(inv.rows[i], j2 - 1),
                           CharCell(inv.rows[i], UsedTypes(inv.rows[i])[j2]).s) = <<>>
               /\ After(inv.rows[i], j2) = After(inv.rows[i], j2 - 1)
               /\ Len(After(inv.rows[i], j2)) > 1

\* the catalog positions of the candidates a row is left with after the last step
Remaining(row) ==
    {k \in 1..Len(huListOfWindBldgTypes) :
        huListOfWindBldgTypes[k] \in Members(After(row, Len(UsedTypes(row))))}

\* C25: the wind building type of every building of the enriched inventory is
\* that of the remaining candidate that comes first in the catalog, be there one
\* candidate left or several.
C25_FirstRemainingCandidate ==
    pc = "characterized" =>
        \A i \in 1..Len(inv.rows) :
            \A R \in {Remaining(inv.rows[i])} :
                R # {} =>
                    \E k \in R :
                        /\ \A k2 \in R : k <= k2
                        /\ Get(inv.cols, inv.rows[i], "wbID")
                               = Num(huListOfWindBldgTypes[k].wbID)

\* C25's case: a building left with one candidate beside a building left with
\* two, of which it has the first
C25_Witness ==
    /\ pc = "characterized"
    /\ \E i, j \in 1..Len(inv.rows) :
           /\ Cardinality(Remaining(inv.rows[i])) = 1
           /\ Cardinality(Remaining(inv.rows[j])) = 2
           /\ Get(inv.cols, inv.rows[j], "wbID") = Num(13)

\* the amount written for a record: the curve of damage class d read at the
\* record's wind speed, times the named value of the record's inventory row
AmountFrom(rec, s, d, name) ==
    IF IsNA(WindOf(rec, s)) THEN ""
    ELSE ToString(Interp(WindOf(rec, s).n, <<50, 100, 150>>, CurveOf(rec, d))
                  * Get(inv.cols, RowOf(rec), name).n)

\* C26: every record of a loss file written carries the building identifier, the
\* county code, the wind building type and the terrain class that the fields
\* fd_id, countyFIPS, wbID and terrainID of its inventory row hold, and its two
\* losses are computed from the row's val_struct and val_cont, however many of the
\* row's characteristic fields are set.
C26_RecordFieldsByName ==
    [][\A s \in Scenarios :
           Produced(s) =>
               \A i \in 1..Len(lossFile'[s].rows) :
                   /\ \E k \in 1..Len(inv.rows) :
                          CsvText(Get(inv.cols, inv.rows[k], "fd_id")) = lossFile'[s].rows[i][1]
                   /\ lossFile'[s].rows[i][3]
                          = CsvText(Get(inv.cols, RowOf(lossFile'[s].rows[i]), "wbID"))
                   /\ lossFile'[s].rows[i][4]
                          = CsvText(Get(inv.cols, RowOf(lossFile'[s].rows[i]), "terrainID"))
                   /\ lossFile'[s].rows[i][6]
                          = AmountFrom(lossFile'[s].rows[i], s, BUILDING_DAMAGE_ID, "val_struct")
                   /\ lossFile'[s].rows[i][7]
                          = AmountFrom(lossFile'[s].rows[i], s, CONTENTS_DAMAGE_ID, "val_cont")
                   /\ lossFile'[s].rows[i][ColIdx(LossCols, "countyFIPS")]
                          = CsvText(Get(inv.cols, RowOf(lossFile'[s].rows[i]), "countyFIPS"))]_vars

\* the county code of an inventory building
CountyOf(b) == Prefix(PyStr(Get(SrcCols, b, "cbfips")).s, 5)

\* two buildings fall in the same (county, occupancy, building-type) group
SameGroup(a, b) ==
    /\ CountyOf(a) = CountyOf(b)
    /\ Get(SrcCols, a, "occtype") = Get(SrcCols, b, "occtype")
    /\ Get(SrcCols, a, "bldgtype") = Get(SrcCols, b, "bldgtype")

\* the place of the k-th building of the inventory in its group
SubtypePos(k) == Cardinality({j \in 1..k : SameGroup(nsi[j], nsi[k])})

\* the subtype the k-th building gets when its group's pass reads the stream from
\* its start
SbtOf(k) ==
    Choice(SubtypeSlice(SbtCols, Get(SrcCols, nsi[k], "bldgtype").s),
           SubtypeVector(nsi[k]), stream[SubtypePos(k)]).val

\* the place of the k-th building in its subtype group
CharPos(k) ==
    Cardinality({j \in 1..k : SameGroup(nsi[j], nsi[k]) /\ SbtOf(j) = SbtOf(k)})

\* the value of a characteristic type the k-th building gets when the pass of the
\* type reads the stream from its start
CharOf(k, charType) ==
    Choice(CharPlan(DistRows(SchemeFor(nsi[k]).name, SbtOf(k)), charType).bldgChar1,
           CharPlan(DistRows(SchemeFor(nsi[k]).name, SbtOf(k)), charType).probs,
           stream[CharPos(k)]).val

\* the inventory building an enriched row came from
SourceOf(row) ==
    CHOOSE k \in 1..Len(nsi) : PyStr(Get(SrcCols, nsi[k], "fd_id")) = Get(inv.cols, row, "fd_id")

\* the rows of the enriched inventory that came from the group of building b
RowsOfGroup(b) == SelectSeq(inv.rows, LAMBDA row : SameGroup(nsi[SourceOf(row)], b))

\* C27: every sampling pass reads the stream of the fixed seed from its start:
\* the k-th building of a (county, occupancy, building-type) group gets the
\* subtype the k-th draw selects, and the k-th building of a subtype group gets,
\* for every characteristic type that applies, the value the k-th draw selects.
\* So two buildings at the same place of two groups with the same candidates and
\* percentages get the same subtype, and with the same place in subtype groups of
\* one scheme and subtype the same characteristic values; and the rows a group
\* contributes are those the group gives when it is classified by itself.
C27_SeedResetBeforeEveryPass ==
    pc = "characterized" =>
        /\ \A i \in 1..Len(inv.rows) :
               \A k \in {SourceOf(inv.rows[i])} :
                   /\ SubtypeOfRow(inv.rows[i]) = SbtOf(k)
                   /\ \A c \in 1..Len(charTypes) :
                          Defines(SchemeOfRow(inv.rows[i]), SbtOf(k), charTypes[c]) =>
                              CharCell(inv.rows[i], charTypes[c]).s = CharOf(k, charTypes[c])
        /\ \A i, j \in 1..Len(inv.rows) :
               \A k \in {SourceOf(inv.rows[i])}, l \in {SourceOf(inv.rows[j])} :
                   /\ (/\ Get(SrcCols, nsi[k], "bldgtype") = Get(SrcCols, nsi[l], "bldgtype")
                       /\ SubtypeVector(nsi[k]) = SubtypeVector(nsi[l])
                       /\ SubtypePos(k) = SubtypePos(l))
                          => SubtypeOfRow(inv.rows[i]) = SubtypeOfRow(inv.rows[j])
                   /\ (/\ SchemeOfRow(inv.rows[i]) = SchemeOfRow(inv.rows[j])
                       /\ SubtypeOfRow(inv.rows[i]) = SubtypeOfRow(inv.rows[j])
                       /\ CharPos(k) = CharPos(l))
                          => \A c \in 1..Len(charTypes) :
                                 CharCell(inv.rows[i], charTypes[c])
                                     = CharCell(inv.rows[j], charTypes[c])
        /\ \A k \in 1..Len(nsi) :
               RowsOfGroup(nsi[k])
                   = BuildingList(<<CountyOf(nsi[k])>>,
                                  SelectSeq(nsi, LAMBDA b : SameGroup(b, nsi[k])),
                                  stream).out

\* C27's case: on a stream whose first two draws select different subtypes, two
\* buildings of one county and building type, each the first of its own
\* occupancy group, both get the subtype and the values of the first draw
C27_Witness ==
    /\ pc = "characterized"
    /\ Len(inv.rows) = 2
    /\ stream[1] = 65 /\ stream[2] = 10
    /\ Get(inv.cols, inv.rows[1], "occtype") # Get(inv.cols, inv.rows[2], "occtype")
    /\ Get(inv.cols, inv.rows[1], "countyFIPS") = Get(inv.cols, inv.rows[2], "countyFIPS")
    /\ SubtypeOfRow(inv.rows[1]) = "WSF2" /\ SubtypeOfRow(inv.rows[2]) = "WSF2"
    /\ CharCell(inv.rows[1], "Roof Shape").s = "rsgab"
    /\ CharCell(inv.rows[2], "Roof Shape").s = "rsgab"

\* the k-th building of the inventory is one the loop classifies: its county has
\* a scheme, its base occupancy a row in the scheme, its building type is one of
\* W, M, C, S, H and its sampled subtype has distribution rows
Eligible(k) ==
    /\ SubtypeDrawn(nsi[k])
    /\ DistRows(SchemeFor(nsi[k]).name, SbtOf(k)) # <<>>

\* C28: a fresh characterization of an inventory with a building to classify
\* completes, and the enriched inventory it returns has one row for each building
\* to classify and no other row: the building's source fields as the input has
\* them, followed by the classification fields.
C28_OneRowPerEligibleBuilding ==
    [][(/\ pc = "start"
        /\ ~CheckpointWanted(ckpt, force)
        /\ mappingFile
        /\ \E k \in 1..Len(nsi) : Eligible(k))
         => /\ pc' = "characterized"
            /\ exc' = "none"
            /\ inv'.cols = OutCols
            /\ Len(inv'.rows) = Cardinality({k \in 1..Len(nsi) : Eligible(k)})
            /\ \A k \in 1..Len(nsi) :
                   Eligible(k) =>
                       \E i \in 1..Len(inv'.rows) :
                           /\ Len(inv'.rows[i]) = Len(OutCols)
                           /\ \A j \in 1..Len(SrcCols) :
                                  inv'.rows[i][j] = PyStr(nsi[k][j])]_vars

\* the text of a total is that of the amount rounded to whole units, empty for
\* both when an amount summed is missing
TotalOf(text, amount) ==
    IF IsNA(amount) THEN text = ""
    ELSE IsDigitText(text) /\ Dist(amount.n, 1000 * TextVal(text)) <= 500

\* the summary file has one row per scenario, in order, whose totals are the sums
\* over the scenario's loss file in the state
SummaryCurrent(file) ==
    /\ file.exists
    /\ Len(file.rows) = Len(SCENARIOS)
    /\ \A i \in 1..Len(file.rows) :
           /\ file.rows[i][1] = SCENARIOS[i]
           /\ lossFile[SCENARIOS[i]].exists
           /\ TotalOf(file.rows[i][2], SumOf(SCENARIOS[i], "Building_Loss"))
           /\ TotalOf(file.rows[i][3], SumOf(SCENARIOS[i], "Contents_Loss"))

\* C29 as the code has it: a run of step 3 whose Aggregate stage does not find a
\* summary file, or runs under force_rerun, ends with a summary of one row per
\* scenario whose totals are the sums over the scenarios' loss files as they are
\* then, be they written by this run or found on disk; a run without force_rerun
\* that finds a summary file ends with that file as it was, whatever the loss
\* files hold.
C29_SummaryCurrentWhenComputed ==
    [][(pc = "calculated" /\ pc' = "done") =>
           IF summary.exists /\ ~force
           THEN summary' = summary
           ELSE /\ SummaryCurrent(summary')
                /\ lossPaths = SCENARIOS
                /\ \A i \in 1..Len(SCENARIOS) :
                       summary'.rows[i][4]
                           = CsvText(AddCells(Round0(SumOf(SCENARIOS[i], "Building_Loss")),
                                              Round0(SumOf(SCENARIOS[i], "Contents_Loss"))))]_vars

\* C29's case: a run without force_rerun that found the loss file of one scenario
\* on disk, computed the two others and then the summary: three rows, the row of
\* the scenario found on disk with the sums of that file
C29_Witness ==
    /\ pc = "done"
    /\ ~force
    /\ eff.writes = 1
    /\ lossFile["ida_2021"] = OldLosses
    /\ lossFile["ida_1971"] # OldLosses
    /\ Len(summary.rows) = 3
    /\ summary.rows[2] = <<"ida_2021", "110000", "22500", "132500">>
    /\ summary.rows[1][2] # "110000"

\* C29: after every run of step 3 that completes without error, with or without
\* force_rerun, the summary file holds one row per scenario of the run and the
\* totals of each row are the sums over that scenario's loss file.
C29_SummaryAlwaysCurrent ==
    pc = "done" => SummaryCurrent(summary)

\* two cells are both missing, or both set to the same text
SameCell(a, b) == IsNA(a) = IsNA(b) /\ (~IsNA(a) => CsvText(a) = CsvText(b))

\* two frames have the same columns and the same rows, field by field
SameFrame(f, g) ==
    /\ f.cols = g.cols
    /\ Len(f.rows) = Len(g.rows)
    /\ \A i \in 1..Len(f.rows) :
           /\ Len(f.rows[i]) = Len(g.rows[i])
           /\ \A j \in 1..Len(f.rows[i]) : SameCell(f.rows[i][j], g.rows[i][j])

\* the outcome of the loss calculation on an inventory: how it ends and the loss
\* files it leaves
LossesFrom(building_inventory) ==
    [exc |-> calculate_building_losses(building_inventory, joined, damageFile,
                                       lossFile, force).exc,
     files |-> calculate_building_losses(building_inventory, joined, damageFile,
                                         lossFile, force).files]

====
